---------------------------- MODULE Spec2Model ----------------------------
(***************************************************************************)
(* Verification model of the enrollment-analytics engine (data_loader.py,  *)
(* analytics.py, ntr_calculator.py, iris-react/scripts/process_data.py).   *)
(*                                                                         *)
(* Text values (Python str) are sequences of one-character strings, so     *)
(* that upper(), lower(), strip() and the substring test "x in s" are      *)
(* computed character by character.  A missing cell (pandas NaN) is the    *)
(* one-element sequence NaN, whose element is not a character.             *)
(***************************************************************************)
EXTENDS Integers, Sequences, FiniteSets, TLC

VARIABLES
    pc,             \* position of the scenario being run
    app_row,        \* the application row handed to the classifier
    app_category,   \* reclassify_app_tags(app_row), once called
    react_category, \* process_data.py's reclassify_app_tags(app_row), once called
    app_out,        \* transform_application_data of the one-row table, once called
    school_in,      \* the raw school text handed to the standardizers
    school_out,     \* the standardizers' results, once called
    enroll_df,      \* the table handed to the enrollment-status deriver
    enroll_out,     \* the table it returned
    enroll_warned,  \* whether it printed its "No enrollment column found" warning
    raw_df,         \* the application feed, as read
    applications,   \* load_applications_data's result: the three yearly tables
    summary,        \* calculate_summary_stats of the yearly tables
    rates,          \* the rate and change properties read off the summary
    census_row,     \* the census row handed to the classifiers
    census_class,   \* the classifiers' results, once called
    census_file,      \* the table read from the census file
    ntr_out,        \* calculate_ntr_from_census of the census table
    census_out,     \* load_census_data's result
    react_out,      \* calculate_ntr_metrics of the census table process_data.py loads
    census_prev,    \* the result before a row of the census table was repeated
    tf_raw,         \* the raw table handed to transform_application_data, as it was
    tf_source,      \* the source it is transformed as
    tf_df,          \* the caller's table, as the calls leave it
    tf_out1,        \* the result of the first call
    tf_out2,        \* the result of the second call
    tf_metrics,     \* calculate_funnel_metrics of the first result
    now,            \* the clock, in hours
    generation,     \* how many times force_refresh has run
    cache,          \* the entries st.cache_data holds for each cached loader
    local_file,     \* whether the configured data folder holds an applications file
    served,         \* what the last load_all_data call returned, and when it was called
    secret,         \* st.secrets' password ('' when none is configured)
    session_state,  \* st.session_state's authenticated flag
    screen,         \* what the last script run left on screen
    rerun_pending,  \* whether the last run ended in st.rerun()
    last_run,       \* what the last script run was given and did
    runs            \* the number of script runs so far

classify_vars == <<app_row, app_category, react_category, app_out, school_in, school_out>>
enroll_vars   == <<enroll_df, enroll_out, enroll_warned>>

funnel_vars   == <<raw_df, applications, summary, rates>>
census_vars   == <<census_row, census_class, census_file, ntr_out, census_out, react_out,
                   census_prev>>

transform_vars == <<tf_raw, tf_source, tf_df, tf_out1, tf_out2, tf_metrics>>

cache_vars == <<now, generation, cache, local_file, served>>
auth_vars == <<secret, session_state, screen, rerun_pending, last_run, runs>>

vars == <<pc, classify_vars, enroll_vars, funnel_vars, census_vars, transform_vars,
          cache_vars, auth_vars>>

-----------------------------------------------------------------------------
(* Python str operations *)

LowerLetters == <<"a", "b", "c", "d", "e", "f", "g", "h", "i", "j", "k", "l", "m", "n", "o", "p", "q", "r", "s", "t", "u", "v", "w", "x", "y", "z">>
UpperLetters == <<"A", "B", "C", "D", "E", "F", "G", "H", "I", "J", "K", "L", "M", "N", "O", "P", "Q", "R", "S", "T", "U", "V", "W", "X", "Y", "Z">>

LetterIndex(c, letters) == CHOOSE i \in 1..Len(letters) : letters[i] = c

upper_char(c) ==
    IF \E i \in 1..Len(LowerLetters) : LowerLetters[i] = c
    THEN UpperLetters[LetterIndex(c, LowerLetters)]
    ELSE c

lower_char(c) ==
    IF \E i \in 1..Len(UpperLetters) : UpperLetters[i] = c
    THEN LowerLetters[LetterIndex(c, UpperLetters)]
    ELSE c

str_upper(s) == [i \in 1..Len(s) |-> upper_char(s[i])]
str_lower(s) == [i \in 1..Len(s) |-> lower_char(s[i])]

RECURSIVE str_lstrip(_)
str_lstrip(s) ==
    IF s /= <<>> /\ s[1] = " " THEN str_lstrip(Tail(s)) ELSE s

RECURSIVE str_rstrip(_)
str_rstrip(s) ==
    IF s /= <<>> /\ s[Len(s)] = " " THEN str_rstrip(SubSeq(s, 1, Len(s) - 1)) ELSE s

str_strip(s) == str_rstrip(str_lstrip(s))

\* Python's "sub in s"
str_contains(sub, s) ==
    \E i \in 0..(Len(s) - Len(sub)) : SubSeq(s, i + 1, i + Len(sub)) = sub

\* s.replace(old, new) for a non-empty old: leftmost non-overlapping occurrences
RECURSIVE str_replace(_, _, _)
str_replace(s, old, new) ==
    IF Len(s) < Len(old) THEN s
    ELSE IF SubSeq(s, 1, Len(old)) = old
         THEN new \o str_replace(SubSeq(s, Len(old) + 1, Len(s)), old, new)
         ELSE <<s[1]>> \o str_replace(Tail(s), old, new)

str_startswith(s, prefix) ==
    Len(s) >= Len(prefix) /\ SubSeq(s, 1, Len(prefix)) = prefix

is_letter(c) ==
    \/ \E i \in 1..Len(LowerLetters) : LowerLetters[i] = c
    \/ \E i \in 1..Len(UpperLetters) : UpperLetters[i] = c

\* s.title(): a letter that follows a non-letter is upper-cased, every other letter lower-cased
str_title(s) ==
    [i \in 1..Len(s) |->
        IF i = 1 \/ ~is_letter(s[i - 1]) THEN upper_char(s[i]) ELSE lower_char(s[i])]

\* word.capitalize()
str_capitalize(s) ==
    [i \in 1..Len(s) |-> IF i = 1 THEN upper_char(s[i]) ELSE lower_char(s[i])]

\* s.split(): the words between runs of whitespace
RECURSIVE str_split(_)
str_split(s) ==
    LET t == str_lstrip(s)
    IN  IF t = <<>> THEN <<>>
        ELSE LET n == IF \E i \in 1..Len(t) : t[i] = " "
                      THEN (CHOOSE i \in 1..Len(t) :
                                t[i] = " " /\ \A j \in 1..(i - 1) : t[j] /= " ") - 1
                      ELSE Len(t)
             IN  <<SubSeq(t, 1, n)>> \o str_split(SubSeq(t, n + 1, Len(t)))

\* ' '.join(words)
RECURSIVE str_join(_)
str_join(words) ==
    IF words = <<>> THEN <<>>
    ELSE IF Len(words) = 1 THEN words[1]
    ELSE words[1] \o <<" ">> \o str_join(Tail(words))

NaN == <<"NaN">>

\* a missing cell of a float64 column
FloatNaN == <<"nan">>

\* the numbers a cell may hold, each with its str()
float_str == (<<"0.0">> :> <<"0", ".", "0">>) @@ (<<"1.0">> :> <<"1", ".", "0">>)

is_number(v) == v \in DOMAIN float_str

\* Python truthiness of a cell: the empty string and the number 0.0 are falsy
truthy(s) == s /= <<>> /\ s /= <<"0.0">>

isna(v) == v = NaN \/ v = FloatNaN

\* str(v): a text is itself, a number prints with its decimal point, a missing cell
\* prints as 'nan'
py_str(v) == IF isna(v) THEN <<"n", "a", "n">> ELSE IF is_number(v) THEN float_str[v] ELSE v

\* what reclassify_app_tags ends in when it calls .strip() on a number
AttributeError == <<"AttributeError">>

-----------------------------------------------------------------------------
(* Tables: a row is a function from column names to cells *)

\* the column names the code reads and writes
COL ==
    [ round               |-> <<"R", "o", "u", "n", "d">>,
      school              |-> <<"S", "c", "h", "o", "o", "l", " ", "A", "p", "p", "l", "i", "e", "d", " ", "f", "o", "r">>,
      degree              |-> <<"D", "e", "g", "r", "e", "e", " ", "o", "f", " ", "I", "n", "t", "e", "r", "e", "s", "t", " ", "(", "a", "p", "p", ")">>,
      program             |-> <<"A", "r", "e", "a", " ", "o", "f", " ", "S", "t", "u", "d", "y", " ", "-", " ", "V", "a", "l", "u", "e">>,
      tags                |-> <<"A", "p", "p", " ", "T", "a", "g", "s">>,
      employer            |-> <<"I", "f", " ", "Y", "e", "s", ",", " ", "N", "a", "m", "e", " ", "o", "f", " ", "S", "p", "o", "n", "s", "o", "r", "i", "n", "g", " ", "E", "m", "p", "l", "o", "y", "e", "r">>,
      sponsor             |-> <<"C", "o", "r", "p", "o", "r", "a", "t", "e", " ", "S", "p", "o", "n", "s", "o", "r">>,
      noodle              |-> <<"N", "o", "o", "d", "l", "e", " ", "E", "x", "c", "e", "p", "t", "i", "o", "n">>,
      special             |-> <<"S", "p", "e", "c", "i", "a", "l", " ", "P", "r", "o", "g", "r", "a", "m">>,
      decision            |-> <<"D", "e", "c", "i", "s", "i", "o", "n", " ", "L", "a", "s", "t", " ", "N", "a", "m", "e">>,
      bin                 |-> <<"B", "i", "n">>,
      yoy                 |-> <<"Y", "O", "Y", " ", "S", "t", "a", "t", "u", "s">>,
      data_source         |-> <<"D", "a", "t", "a", " ", "S", "o", "u", "r", "c", "e">>,
      category            |-> <<"A", "p", "p", "l", "i", "c", "a", "t", "i", "o", "n", " ", "C", "a", "t", "e", "g", "o", "r", "y">>,
      season              |-> <<"S", "e", "a", "s", "o", "n">>,
      degree_type         |-> <<"D", "e", "g", "r", "e", "e", " ", "T", "y", "p", "e">>,
      sponsoring_company  |-> <<"S", "p", "o", "n", "s", "o", "r", "i", "n", "g", " ", "C", "o", "m", "p", "a", "n", "y">>,
      school_expanded     |-> <<"S", "c", "h", "o", "o", "l", " ", "(", "E", "x", "p", "a", "n", "d", "e", "d", ")">>,
      program_cleaned     |-> <<"P", "r", "o", "g", "r", "a", "m", " ", "C", "l", "e", "a", "n", "e", "d">>,
      is_application      |-> <<"I", "s", " ", "A", "p", "p", "l", "i", "c", "a", "t", "i", "o", "n">>,
      admit_status        |-> <<"A", "d", "m", "i", "t", " ", "S", "t", "a", "t", "u", "s">>,
      offer_accepted      |-> <<"O", "f", "f", "e", "r", " ", "A", "c", "c", "e", "p", "t", "e", "d">>,
      offer_declined      |-> <<"O", "f", "f", "e", "r", " ", "D", "e", "c", "l", "i", "n", "e", "d">>,
      enrolled            |-> <<"E", "n", "r", "o", "l", "l", "e", "d">>,
      date_of_enrollment  |-> <<"D", "a", "t", "e", " ", "o", "f", " ", "E", "n", "r", "o", "l", "l", "m", "e", "n", "t">> ]

\* row.get(key, default)
row_get(row, key, default) == IF key \in DOMAIN row THEN row[key] ELSE default

\* a DataFrame: None, or a set of columns and a sequence of rows over them
NoneDataFrame  == [isnone |-> TRUE, columns |-> {}, rows |-> <<>>]
EmptyDataFrame == [isnone |-> FALSE, columns |-> {}, rows |-> <<>>]

DataFrame(columns, rows) == [isnone |-> FALSE, columns |-> columns, rows |-> rows]

\* df is None or df.empty
df_none_or_empty(df) == df.isnone \/ df.columns = {} \/ df.rows = <<>>

\* df[col] = value, on one row
set_col(row, col, value) == (col :> value) @@ row

-----------------------------------------------------------------------------
(* Field standardizers *)

school_mappings(name) ==
    CASE name = <<"S", "O", "B">> -> <<"S", "S", "B">>
      [] name = <<"S", "E", "S">> -> <<"S", "E", "S">>
      [] name = <<"S", "S", "E">> -> <<"S", "E", "S">>
      [] name = <<>> -> <<"D", "u", "a", "l", " ", "D", "e", "g", "r", "e", "e">>
      [] name = <<"D", "U", "A", "L", " ", "D", "E", "G", "R", "E", "E">> -> <<"D", "u", "a", "l", " ", "D", "e", "g", "r", "e", "e">>
      [] name = <<"S", "C", "H", "O", "O", "L", " ", "O", "F", " ", "B", "U", "S", "I", "N", "E", "S", "S">> -> <<"S", "S", "B">>
      [] name = <<"S", "C", "H", "O", "O", "L", " ", "O", "F", " ", "E", "N", "G", "I", "N", "E", "E", "R", "I", "N", "G", " ", "A", "N", "D", " ", "S", "C", "I", "E", "N", "C", "E">> -> <<"S", "E", "S">>
      [] name = <<"S", "C", "H", "O", "O", "L", " ", "O", "F", " ", "S", "Y", "S", "T", "E", "M", "S", " ", "A", "N", "D", " ", "E", "N", "T", "E", "R", "P", "R", "I", "S", "E", "S">> -> <<"S", "E", "S">>
      [] name = <<"C", "P", "E">> -> <<"C", "P", "E">>
      [] name = <<"C", "O", "N", "T", "I", "N", "U", "I", "N", "G", " ", "A", "N", "D", " ", "P", "R", "O", "F", "E", "S", "S", "I", "O", "N", "A", "L", " ", "E", "D", "U", "C", "A", "T", "I", "O", "N">> -> <<"C", "P", "E">>
      [] name = <<"P", "R", "O", "F", "E", "S", "S", "I", "O", "N", "A", "L", " ", "E", "D", "U", "C", "A", "T", "I", "O", "N">> -> <<"C", "P", "E">>
      [] OTHER -> name

\* mutant: the continuing-education test made before the dual-degree / empty test
standardize_school_name_cpe_first(raw) ==
    IF isna(raw) THEN <<"D", "u", "a", "l", " ", "D", "e", "g", "r", "e", "e">>
    ELSE LET name == str_strip(str_upper(py_str(raw)))
         IN  IF str_contains(<<"C", "P", "E">>, name) THEN <<"C", "P", "E">>
             ELSE IF name = <<>> \/ str_contains(<<"D", "U", "A", "L">>, name) THEN <<"D", "u", "a", "l", " ", "D", "e", "g", "r", "e", "e">>
             ELSE school_mappings(name)

standardize_school_name(raw) ==
    IF isna(raw) THEN <<"D", "u", "a", "l", " ", "D", "e", "g", "r", "e", "e">>
    ELSE LET name == str_strip(str_upper(py_str(raw)))
         IN  IF name = <<>> \/ str_contains(<<"D", "U", "A", "L">>, name) THEN <<"D", "u", "a", "l", " ", "D", "e", "g", "r", "e", "e">>
             ELSE IF str_contains(<<"C", "P", "E">>, name) THEN <<"C", "P", "E">>
             ELSE school_mappings(name)

\* the copy of the standardizer in the React data pipeline
react_school_mappings(name) ==
    CASE name = <<"S", "S", "B">> -> <<"S", "S", "B">>
      [] name = <<"C", "O", "L", "L", "E", "G", "E", " ", "O", "F", " ", "P", "R", "O", "F", "E", "S", "S", "I", "O", "N", "A", "L", " ", "E", "D", "U", "C", "A", "T", "I", "O", "N">> -> <<"C", "P", "E">>
      [] OTHER -> school_mappings(name)

react_standardize_school_name(raw) ==
    IF isna(raw) THEN <<"D", "u", "a", "l", " ", "D", "e", "g", "r", "e", "e">>
    ELSE LET name == str_strip(str_upper(py_str(raw)))
         IN  IF name = <<>> \/ str_contains(<<"D", "U", "A", "L">>, name) THEN <<"D", "u", "a", "l", " ", "D", "e", "g", "r", "e", "e">>
             ELSE IF str_contains(<<"C", "P", "E">>, name) THEN <<"C", "P", "E">>
             ELSE react_school_mappings(name)

standardize_program_name(raw) ==
    IF isna(raw) THEN <<>>
    ELSE LET n0 == str_strip(str_lower(py_str(raw)))
             n1 == str_strip(str_replace(n0, <<"(", "o", "n", "l", "i", "n", "e", ")">>, <<>>))
             n2 == str_strip(str_replace(n1, <<"m", "b", "a", " ", "-">>, <<>>))
             n3 == str_strip(str_replace(n2, <<"(", "m", "b", "a", ")">>, <<>>))
         IN  str_title(n3)

standardize_degree_type(degree_interest) ==
    IF isna(degree_interest) THEN <<>>
    ELSE LET text == str_strip(str_lower(py_str(degree_interest)))
         IN  IF str_contains(<<"c", "e", "r", "t", "i", "f", "i", "c", "a", "t", "e">>, text) THEN <<"G", "r", "a", "d", "u", "a", "t", "e", " ", "C", "e", "r", "t", "i", "f", "i", "c", "a", "t", "e">>
             ELSE IF str_contains(<<"d", "u", "a", "l">>, text) THEN <<"D", "u", "a", "l", " ", "D", "e", "g", "r", "e", "e">>
             ELSE <<"M", "a", "s", "t", "e", "r", "s">>

\* the keyword table of standardize_company_name, in insertion order
company_mappings ==
    << <<<<"p", "f", "i", "z", "e", "r">>, <<"P", "f", "i", "z", "e", "r">>>>,
       <<<<"c", "o", "l", "l", "i", "n", "s">>, <<"C", "o", "l", "l", "i", "n", "s", " ", "A", "e", "r", "o", "s", "p", "a", "c", "e">>>>,
       <<<<"b", "a", "e">>, <<"B", "A", "E", " ", "S", "y", "s", "t", "e", "m", "s">>>>,
       <<<<"b", "a", "n", "k", " ", "o", "f", " ", "a", "m", "e", "r", "i", "c", "a">>, <<"B", "a", "n", "k", " ", "o", "f", " ", "A", "m", "e", "r", "i", "c", "a">>>>,
       <<<<"m", "e", "r", "r", "i", "l", "l", " ", "l", "y", "n", "c", "h">>, <<"B", "a", "n", "k", " ", "o", "f", " ", "A", "m", "e", "r", "i", "c", "a">>>>,
       <<<<"l", "3">>, <<"L", "3", "H", "a", "r", "r", "i", "s">>>>,
       <<<<"l", "3", "h", "a", "r", "r", "i", "s">>, <<"L", "3", "H", "a", "r", "r", "i", "s">>>>,
       <<<<"a", "s", "t", "r", "a">>, <<"A", "s", "t", "r", "a", "Z", "e", "n", "e", "c", "a">>>>,
       <<<<"n", "o", "r", "t", "h", "r", "o", "p">>, <<"N", "o", "r", "t", "h", "r", "o", "p", " ", "G", "r", "u", "m", "m", "a", "n">>>>,
       <<<<"n", "g", "c">>, <<"N", "o", "r", "t", "h", "r", "o", "p", " ", "G", "r", "u", "m", "m", "a", "n">>>>,
       <<<<"v", "e", "r", "i", "z", "o", "n">>, <<"V", "e", "r", "i", "z", "o", "n">>>>,
       <<<<"j", "p", "m", "o", "r", "g", "a", "n">>, <<"J", "P", "M", "o", "r", "g", "a", "n", " ", "C", "h", "a", "s", "e">>>>,
       <<<<"j", "p", " ", "m", "o", "r", "g", "a", "n">>, <<"J", "P", "M", "o", "r", "g", "a", "n", " ", "C", "h", "a", "s", "e">>>>,
       <<<<"j", "p", "m", "c">>, <<"J", "P", "M", "o", "r", "g", "a", "n", " ", "C", "h", "a", "s", "e">>>>,
       <<<<"l", "o", "c", "k", "h", "e", "e", "d">>, <<"L", "o", "c", "k", "h", "e", "e", "d", " ", "M", "a", "r", "t", "i", "n">>>>,
       <<<<"b", "o", "e", "i", "n", "g">>, <<"B", "o", "e", "i", "n", "g">>>>,
       <<<<"r", "a", "y", "t", "h", "e", "o", "n">>, <<"R", "a", "y", "t", "h", "e", "o", "n", " ", "T", "e", "c", "h", "n", "o", "l", "o", "g", "i", "e", "s">>>>,
       <<<<"r", "t", "x">>, <<"R", "a", "y", "t", "h", "e", "o", "n", " ", "T", "e", "c", "h", "n", "o", "l", "o", "g", "i", "e", "s">>>>,
       <<<<"n", "a", "v", "a", "i", "r">>, <<"N", "A", "V", "A", "I", "R">>>>,
       <<<<"u", "s", " ", "a", "r", "m", "y">>, <<"U", "S", " ", "A", "r", "m", "y">>>>,
       <<<<"p", "i", "c", "a", "t", "i", "n", "n", "y">>, <<"U", "S", " ", "A", "r", "m", "y">>>>,
       <<<<"d", "e", "v", "c", "o", "m">>, <<"U", "S", " ", "A", "r", "m", "y">>>> >>

standardize_company_name(raw) ==
    IF isna(raw) \/ ~truthy(str_strip(py_str(raw))) THEN <<>>
    ELSE LET original == str_strip(str_lower(py_str(raw)))
             hits == { k \in 1..Len(company_mappings) :
                           str_contains(company_mappings[k][1], original) }
         IN  IF hits /= {}
             THEN company_mappings[CHOOSE k \in hits : \A j \in hits : k <= j][2]
             ELSE LET words == str_split(original)
                  IN  str_join([w \in 1..Len(words) |-> str_capitalize(words[w])])

-----------------------------------------------------------------------------
(* Application classifier *)

get_single_value(val) == IF isna(val) THEN <<>> ELSE val

CPE_PROGRAM_KEYWORDS ==
    { <<"a", "p", "p", "l", "i", "e", "d", " ", "d", "a", "t", "a", " ", "s", "c", "i", "e", "n", "c", "e">>,
      <<"m", "e", "a", "d", "s">>,
      <<"e", "n", "t", "e", "r", "p", "r", "i", "s", "e", " ", "a", "i">>,
      <<"e", "n", "t", "e", "r", "p", "r", "i", "s", "e", " ", "a", "r", "t", "i", "f", "i", "c", "i", "a", "l", " ", "i", "n", "t", "e", "l", "l", "i", "g", "e", "n", "c", "e">>,
      <<"a", "d", "s", " ", "f", "o", "u", "n", "d", "a", "t", "i", "o", "n", "s">>,
      <<"a", "p", "p", "l", "i", "e", "d", " ", "d", "a", "t", "a", " ", "s", "c", "i", "e", "n", "c", "e", " ", "f", "o", "u", "n", "d", "a", "t", "i", "o", "n", "s">> }

is_cpe_program(program_name) ==
    IF ~truthy(program_name) THEN FALSE
    ELSE LET program_lower == str_strip(str_lower(py_str(program_name)))
         IN  \E keyword \in CPE_PROGRAM_KEYWORDS : str_contains(keyword, program_lower)

\* mutant: the blank-school rule without its degree-interest test
blank_school_rule_any_degree(school_applied, school_upper, degree_interest) ==
    ~truthy(school_applied) \/ school_upper = <<>>

\* if (not school_applied or school_upper == '') and str(degree_interest).strip() != 'Dual Degree'
blank_school_rule(school_applied, school_upper, degree_interest) ==
    /\ (~truthy(school_applied) \/ school_upper = <<>>)
    /\ str_strip(py_str(degree_interest)) /= <<"D", "u", "a", "l", " ", "D", "e", "g", "r", "e", "e">>

\* mutant: the retail rule without the excluded-program marker
retail_tag_rule_blank_only(tag) == ~truthy(tag)

\* if not tag or 'EDD' in tag
retail_tag_rule(tag) == ~truthy(tag) \/ str_contains(<<"E", "D", "D">>, tag)

\* if special_program.strip()
special_program_rule(special_program) == truthy(str_strip(special_program))

\* mutant: the partner-channel rule without the exclusion flag
noodle_rule_no_exception(tag, noodle_exception) == str_contains(<<"N", "o", "o", "d", "l", "e">>, tag)

\* if 'Noodle' in tag: if not noodle_exception or ('exclude' not in noodle_exception)
noodle_rule(tag, noodle_exception) ==
    /\ str_contains(<<"N", "o", "o", "d", "l", "e">>, tag)
    /\ (~truthy(noodle_exception) \/ ~str_contains(<<"e", "x", "c", "l", "u", "d", "e">>, noodle_exception))

\* if 'Beacon' in tag
beacon_rule(tag) == str_contains(<<"B", "e", "a", "c", "o", "n">>, tag)

\* the operands of that test that are evaluated include a number
corporate_rule_raises(tag, employer, sponsoring_employer) ==
    /\ ~str_contains(<<"C", "o", "r", "p", "o", "r", "a", "t", "e">>, tag)
    /\ \/ is_number(employer)
       \/ ~truthy(str_strip(employer)) /\ is_number(sponsoring_employer)

\* if 'Corporate' in tag or employer.strip() or sponsoring_employer.strip()
corporate_rule(tag, employer, sponsoring_employer) ==
    \/ str_contains(<<"C", "o", "r", "p", "o", "r", "a", "t", "e">>, tag)
    \/ truthy(str_strip(employer))
    \/ truthy(str_strip(sponsoring_employer))

\* mutant: no final return, the function falls off its end
default_category_none == <<>>

default_category == <<"S", "t", "e", "v", "e", "n", "s", " ", "O", "n", "l", "i", "n", "e", " ", "(", "R", "e", "t", "a", "i", "l", ")">>

reclassify_app_tags(row) ==
    IF py_str(row_get(row, COL.data_source, <<>>)) = <<"A", "S", "A", "P">> THEN <<"A", "S", "A", "P">>
    ELSE
    LET school_applied  == get_single_value(row_get(row, COL.school, <<>>))
        degree_interest == get_single_value(row_get(row, COL.degree, <<>>))
        program         == get_single_value(row_get(row, COL.program, <<>>))
        school_upper    == str_strip(str_upper(py_str(school_applied)))
    IN  IF str_contains(<<"C", "P", "E">>, school_upper) THEN <<"C", "P", "E">>
        ELSE IF is_cpe_program(program) THEN <<"C", "P", "E">>
        ELSE IF blank_school_rule(school_applied, school_upper, degree_interest) THEN <<"C", "P", "E">>
        ELSE
        LET tag                 == py_str(get_single_value(row_get(row, COL.tags, <<>>)))
            employer            == get_single_value(row_get(row, COL.employer, <<>>))
            sponsoring_employer == get_single_value(row_get(row, COL.sponsor, <<>>))
            noodle_exception    == str_lower(py_str(get_single_value(row_get(row, COL.noodle, <<>>))))
            special_program     == get_single_value(row_get(row, COL.special, <<>>))
        IN  IF retail_tag_rule(tag) THEN <<"S", "t", "e", "v", "e", "n", "s", " ", "O", "n", "l", "i", "n", "e", " ", "(", "R", "e", "t", "a", "i", "l", ")">>
            ELSE IF is_number(special_program) THEN AttributeError
            ELSE IF special_program_rule(special_program) THEN <<"S", "p", "e", "c", "i", "a", "l", " ", "P", "r", "o", "g", "r", "a", "m">>
            ELSE IF noodle_rule(tag, noodle_exception) THEN <<"S", "e", "l", "e", "c", "t", " ", "P", "r", "o", "f", "e", "s", "s", "i", "o", "n", "a", "l", " ", "O", "n", "l", "i", "n", "e">>
            ELSE IF beacon_rule(tag) THEN <<"B", "e", "a", "c", "o", "n">>
            ELSE IF corporate_rule_raises(tag, employer, sponsoring_employer) THEN AttributeError
            ELSE IF corporate_rule(tag, employer, sponsoring_employer)
                 THEN <<"S", "t", "e", "v", "e", "n", "s", " ", "O", "n", "l", "i", "n", "e", " ", "(", "C", "o", "r", "p", "o", "r", "a", "t", "e", ")">>
            ELSE default_category

-----------------------------------------------------------------------------
(* Enrollment-status deriver *)

valid_years == {2024, 2025, 2026}

Digits == <<"0", "1", "2", "3", "4", "5", "6", "7", "8", "9">>

is_digit(c) == \E i \in 1..Len(Digits) : Digits[i] = c

digit_value(c) == (CHOOSE i \in 1..Len(Digits) : Digits[i] = c) - 1

\* the number a run of digits denotes
RECURSIVE digits_value(_)
digits_value(s) ==
    IF s = <<>> THEN 0
    ELSE 10 * digits_value(SubSeq(s, 1, Len(s) - 1)) + digit_value(s[Len(s)])

\* str(n) of a natural number
RECURSIVE int_to_str(_)
int_to_str(n) ==
    IF n < 10 THEN <<Digits[n + 1]>>
    ELSE int_to_str(n \div 10) \o <<Digits[(n % 10) + 1]>>

NaT == [isnat |-> TRUE, year |-> 0]

\* pd.to_datetime(val, errors='coerce') on the ISO form YYYY-MM-DD; any other text
\* among the inputs is one pandas cannot read as a date, and coerces to NaT
to_datetime(val) ==
    LET text == py_str(val)
    IN  IF /\ Len(text) = 10
           /\ text[5] = "-" /\ text[8] = "-"
           /\ \A i \in {1, 2, 3, 4, 6, 7, 9, 10} : is_digit(text[i])
           /\ digits_value(SubSeq(text, 6, 7)) \in 1..12
           /\ digits_value(SubSeq(text, 9, 10)) \in 1..31
        THEN [isnat |-> FALSE, year |-> digits_value(SubSeq(text, 1, 4))]
        ELSE NaT

\* mutant: a blank date counts as enrolled
get_yoy_status_blank_is_yes(date_val) ==
    IF isna(date_val) \/ str_strip(py_str(date_val)) = <<>> THEN <<"y", "e", "s">>
    ELSE LET parsed == to_datetime(date_val)
         IN  IF parsed.isnat THEN <<"n", "o">>
             ELSE IF parsed.year \in valid_years THEN <<"y", "e", "s">>
             ELSE <<"n", "o">>

get_yoy_status(date_val) ==
    IF isna(date_val) \/ str_strip(py_str(date_val)) = <<>> THEN <<"n", "o">>
    ELSE LET parsed == to_datetime(date_val)
         IN  IF parsed.isnat THEN <<"n", "o">>
             ELSE IF parsed.year \in valid_years THEN <<"y", "e", "s">>
             ELSE <<"n", "o">>

\* lambda x: 'yes' if pd.notna(x) and any(str(year) in str(x) for year in valid_years) else 'no'
term_yoy_status(x) ==
    IF ~isna(x) /\ \E year \in valid_years : str_contains(int_to_str(year), py_str(x))
    THEN <<"y", "e", "s">> ELSE <<"n", "o">>

\* col_map.get(name): the column whose lower-cased name is name, or None (a table
\* here holds at most one such column)
NoColumn == <<"None">>

col_map_get(df, name) ==
    IF \E c \in df.columns : str_lower(c) = name
    THEN CHOOSE c \in df.columns : str_lower(c) = name
    ELSE NoColumn

\* the returned table and whether the warning was printed
derive_yoy_status_from_enrollment_date(df) ==
    IF df_none_or_empty(df) THEN [df |-> df, warned |-> FALSE]
    ELSE
    LET doe_col == col_map_get(df, <<"d", "a", "t", "e", " ", "o", "f", " ", "e", "n", "r", "o", "l", "l", "m", "e", "n", "t">>)
        toe_col == col_map_get(df, <<"t", "e", "r", "m", " ", "o", "f", " ", "e", "n", "r", "o", "l", "l", "m", "e", "n", "t">>)
        status(row) ==
            IF doe_col /= NoColumn THEN get_yoy_status(row[doe_col])
            ELSE IF toe_col /= NoColumn THEN term_yoy_status(row[toe_col])
            ELSE <<"n", "o">>
    IN  [ df |-> DataFrame(df.columns \cup {COL.yoy},
                           [i \in 1..Len(df.rows) |->
                               set_col(df.rows[i], COL.yoy, status(df.rows[i]))]),
          warned |-> doe_col = NoColumn /\ toe_col = NoColumn ]

-----------------------------------------------------------------------------
(* Population transformer *)


\* safe_fillna: a missing cell of a float64 column becomes 0, one of a text (dtype
\* object) column ''
safe_fillna(df) ==
    DataFrame(df.columns,
              [i \in 1..Len(df.rows) |->
                  [c \in DOMAIN df.rows[i] |->
                      IF df.rows[i][c] = FloatNaN THEN <<"0.0">>
                      ELSE IF isna(df.rows[i][c]) THEN <<>> ELSE df.rows[i][c]]])

\* Series.str.contains(pat, case=False) on one cell
contains_nocase(pat, cell) == str_contains(str_lower(pat), str_lower(cell))

infer_season(df) ==
    IF COL.round \in df.columns
    THEN IF \E i \in 1..Len(df.rows) : contains_nocase(<<"F", "a", "l", "l">>, df.rows[i][COL.round])
              THEN <<"F", "a", "l", "l">>
         ELSE IF \E i \in 1..Len(df.rows) : contains_nocase(<<"S", "u", "m", "m", "e", "r">>, df.rows[i][COL.round])
              THEN <<"S", "u", "m", "m", "e", "r">>
         ELSE IF \E i \in 1..Len(df.rows) : contains_nocase(<<"S", "p", "r", "i", "n", "g">>, df.rows[i][COL.round])
              THEN <<"S", "p", "r", "i", "n", "g">>
         ELSE <<"U", "n", "k", "n", "o", "w", "n">>
    ELSE <<"U", "n", "k", "n", "o", "w", "n">>

professional_cert_programs ==
    { <<"S", "y", "s", "t", "e", "m", "s", " ", "E", "n", "g", "i", "n", "e", "e", "r", "i", "n", "g", " ", "F", "o", "u", "n", "d", "a", "t", "i", "o", "n", "s">>, <<"E", "n", "t", "e", "r", "p", "r", "i", "s", "e", " ", "A", "i">>, <<"A", "p", "p", "l", "i", "e", "d", " ", "D", "a", "t", "a", " ", "S", "c", "i", "e", "n", "c", "e", " ", "F", "o", "u", "n", "d", "a", "t", "i", "o", "n", "s">> }

\* the field standardization block: Degree Type, Sponsoring Company, School (Expanded),
\* Program Cleaned, and the two overrides
standardize_fields(row, columns) ==
    LET degree0  == IF COL.degree \in columns
                    THEN standardize_degree_type(row[COL.degree]) ELSE <<>>
        company  == IF COL.employer \in columns
                    THEN standardize_company_name(row[COL.employer]) ELSE <<>>
        school0  == IF COL.school \in columns
                    THEN standardize_school_name(row[COL.school]) ELSE <<>>
        program  == IF COL.program \in columns
                    THEN standardize_program_name(row[COL.program]) ELSE <<>>
        degree1  == IF \E prog \in professional_cert_programs : contains_nocase(prog, program)
                    THEN <<"P", "r", "o", "f", "e", "s", "s", "i", "o", "n", "a", "l", " ", "G", "r", "a", "d", "u", "a", "t", "e", " ", "C", "e", "r", "t", "i", "f", "i", "c", "a", "t", "e">> ELSE degree0
        school1  == IF degree1 = <<"D", "u", "a", "l", " ", "D", "e", "g", "r", "e", "e">> THEN <<"D", "u", "a", "l", " ", "D", "e", "g", "r", "e", "e">> ELSE school0
    IN  set_col(set_col(set_col(set_col(row,
            COL.degree_type, degree1),
            COL.sponsoring_company, company),
            COL.school_expanded, school1),
            COL.program_cleaned, program)

_normalize_asap_decision(val) ==
    LET s0 == str_lower(str_strip(py_str(IF truthy(val) THEN val ELSE <<>>)))
        s1 == IF str_startswith(s0, <<"-">>) THEN str_strip(Tail(s0)) ELSE s0
    IN  str_replace(str_replace(s1, <<"a", "s", "a", "p", " ", "a", "p", "p", "r", "o", "v", "e", "d">>, <<"a", "s", "a", "p", " ", "a", "p", "p", "r", "o", "v", "e", "d">>),
                    <<"a", "s", "a", "p", "_", "a", "p", "p", "r", "o", "v", "e", "d">>, <<"a", "s", "a", "p", " ", "a", "p", "p", "r", "o", "v", "e", "d">>)

\* mutant: every row is a submitted application
_asap_flags_all_submitted(decision_last_name_raw) ==
    LET s == _normalize_asap_decision(decision_last_name_raw)
    IN  [ is_submit |-> TRUE,
          admitted  |-> \/ str_contains(<<"a", "s", "a", "p", " ", "a", "p", "p", "r", "o", "v", "e", "d">>, s)
                        \/ (str_contains(<<"a", "p", "p", "r", "o", "v", "e", "d">>, s) /\ str_contains(<<"a", "s", "a", "p">>, s)),
          offer_acc |-> str_contains(<<"a", "c", "c", "e", "p", "t">>, s) /\ str_contains(<<"a", "s", "a", "p", " ", "a", "p", "p", "r", "o", "v", "e", "d">>, s),
          offer_dec |-> str_contains(<<"d", "e", "c", "l", "i", "n", "e">>, s) /\ str_contains(<<"a", "s", "a", "p", " ", "a", "p", "p", "r", "o", "v", "e", "d">>, s) ]

\* (is_submit_app, admitted, offer_accepted, offer_declined)
_asap_flags(decision_last_name_raw) ==
    LET s == _normalize_asap_decision(decision_last_name_raw)
    IN  [ is_submit |-> Len(str_strip(s)) > 0,
          admitted  |-> \/ str_contains(<<"a", "s", "a", "p", " ", "a", "p", "p", "r", "o", "v", "e", "d">>, s)
                        \/ (str_contains(<<"a", "p", "p", "r", "o", "v", "e", "d">>, s) /\ str_contains(<<"a", "s", "a", "p">>, s)),
          offer_acc |-> str_contains(<<"a", "c", "c", "e", "p", "t">>, s) /\ str_contains(<<"a", "s", "a", "p", " ", "a", "p", "p", "r", "o", "v", "e", "d">>, s),
          offer_dec |-> str_contains(<<"d", "e", "c", "l", "i", "n", "e">>, s) /\ str_contains(<<"a", "s", "a", "p", " ", "a", "p", "p", "r", "o", "v", "e", "d">>, s) ]

yes_or_blank(flag) == IF flag THEN <<"y", "e", "s">> ELSE <<>>

\* 'yes' if str(x).strip().lower() == 'yes' else ''
enrolled_from_yoy(x) == yes_or_blank(str_lower(str_strip(py_str(x))) = <<"y", "e", "s">>)

\* the ASAP branch, one row (the filter on Is Application follows it)
asap_metrics(row, columns, school_all_blank) ==
    LET decision == IF COL.decision \in columns THEN row[COL.decision] ELSE <<>>
        yoy      == IF COL.yoy \in columns THEN row[COL.yoy] ELSE <<>>
        flags    == _asap_flags(decision)
        r0       == set_col(set_col(row, COL.degree_type, <<"M", "a", "s", "t", "e", "r", "s">>),
                            COL.school_expanded, <<"S", "E", "S">>)
        r1       == IF school_all_blank THEN set_col(r0, COL.school, <<"S", "E", "S">>) ELSE r0
    IN  set_col(set_col(set_col(set_col(set_col(r1,
            COL.is_application, IF flags.is_submit THEN 1 ELSE 0),
            COL.admit_status, IF flags.admitted THEN <<"a", "d", "m", "i", "t", "t", "e", "d">> ELSE <<"n", "o", "t", " ", "a", "d", "m", "i", "t", "t", "e", "d">>),
            COL.offer_accepted, yes_or_blank(flags.offer_acc)),
            COL.offer_declined, yes_or_blank(flags.offer_dec)),
            COL.enrolled, enrolled_from_yoy(yoy))

admit_keywords ==
    { <<"a", "d", "m", "i", "t", "/", "m", "a", "t", "r", "i", "c">>, <<"a", "d", "m", "i", "t", " ", "p", "r", "o", "v", "i", "s", "i", "o", "n", "a", "l", "l", "y">>, <<"a", "d", "m", "i", "t", "/", "d", "e", "c", "l", "i", "n", "e">>, <<"a", "d", "m", "i", "t", "/", "w", "i", "t", "h", "d", "r", "a", "w">> }

\* mutant: admitted by the bin alone
determine_admit_status_bin_only(bin_cell, decision_cell) ==
    LET bin_val == str_strip(str_lower(py_str(bin_cell)))
    IN  IF bin_val \in { <<"a", "d", "m", "i", "t">>, <<"c", "o", "n", "d", "i", "t", "i", "o", "n", "a", "l", " ", "a", "d", "m", "i", "t">> } THEN <<"a", "d", "m", "i", "t", "t", "e", "d">>
        ELSE <<"n", "o", "t", " ", "a", "d", "m", "i", "t", "t", "e", "d">>

determine_admit_status(bin_cell, decision_cell) ==
    LET bin_val      == str_strip(str_lower(py_str(bin_cell)))
        decision_val == str_strip(str_lower(py_str(decision_cell)))
    IN  IF bin_val \in { <<"a", "d", "m", "i", "t">>, <<"c", "o", "n", "d", "i", "t", "i", "o", "n", "a", "l", " ", "a", "d", "m", "i", "t">> } THEN <<"a", "d", "m", "i", "t", "t", "e", "d">>
        ELSE IF \E keyword \in admit_keywords : str_contains(keyword, decision_val)
             THEN <<"a", "d", "m", "i", "t", "t", "e", "d">>
        ELSE <<"n", "o", "t", " ", "a", "d", "m", "i", "t", "t", "e", "d">>

\* the MAIN branch, one row: every row is an application
main_metrics(row, columns) ==
    LET decision == IF COL.decision \in columns THEN row[COL.decision] ELSE <<>>
        bin      == IF COL.bin \in columns THEN row[COL.bin] ELSE <<>>
        dec_norm == str_strip(str_lower(py_str(decision)))
    IN  set_col(set_col(set_col(set_col(set_col(row,
            COL.is_application, 1),
            COL.admit_status, determine_admit_status(bin, decision)),
            COL.offer_accepted, yes_or_blank(dec_norm = <<"a", "d", "m", "i", "t", "/", "m", "a", "t", "r", "i", "c">>)),
            COL.offer_declined, yes_or_blank(str_contains(<<"a", "d", "m", "i", "t", "/", "d", "e", "c", "l", "i", "n", "e">>, dec_norm))),
            COL.enrolled, IF COL.yoy \in columns
                          THEN enrolled_from_yoy(row[COL.yoy]) ELSE <<>>)

DerivedColumns ==
    { COL.season, COL.data_source, COL.degree_type, COL.sponsoring_company,
      COL.school_expanded, COL.program_cleaned, COL.is_application, COL.admit_status,
      COL.offer_accepted, COL.offer_declined, COL.enrolled, COL.category }

\* mutant: no copy is taken, and safe_fillna and the Season column land on the
\* caller's table
caller_table_after_transform_in_place(df, source) ==
    IF df_none_or_empty(df) THEN df
    ELSE DataFrame(df.columns \cup {COL.season},
                   [i \in 1..Len(df.rows) |->
                       set_col(safe_fillna(df).rows[i], COL.season,
                               infer_season(safe_fillna(df)))])

\* the caller's table once transform_application_data(df, source) has returned: the
\* function rebinds df to df.copy() before its first write
caller_table_after_transform(df, source) == df

transform_application_data(df, source) ==
    IF df_none_or_empty(df) THEN EmptyDataFrame
    ELSE
    LET filled  == safe_fillna(df)
        cols    == filled.columns
        season  == infer_season(filled)
        is_asap == str_upper(source) = <<"A", "S", "A", "P">>
        school_all_blank ==
            \/ COL.school \notin cols
            \/ \A i \in 1..Len(filled.rows) : filled.rows[i][COL.school] = <<>>
        base(row) ==
            standardize_fields(
                set_col(set_col(row, COL.season, season),
                        COL.data_source, IF is_asap THEN <<"A", "S", "A", "P">> ELSE <<"M", "A", "I", "N">>),
                cols)
        measured ==
            [i \in 1..Len(filled.rows) |->
                IF is_asap THEN asap_metrics(base(filled.rows[i]), cols, school_all_blank)
                ELSE main_metrics(base(filled.rows[i]), cols)]
        kept ==
            IF is_asap THEN SelectSeq(measured, LAMBDA r : r[COL.is_application] = 1)
            ELSE measured
        out_cols == cols \cup DerivedColumns \cup (IF is_asap THEN {COL.school} ELSE {})
    IN  DataFrame(out_cols,
                  [i \in 1..Len(kept) |->
                      set_col(kept[i], COL.category, reclassify_app_tags(kept[i]))])

-----------------------------------------------------------------------------
(* Application loader: the split of the feed into the three yearly tables *)


\* df[mask]: the rows whose entry of the boolean series mask is true
df_filter(df, mask) ==
    LET idx == SelectSeq([i \in 1..Len(df.rows) |-> i], LAMBDA i : mask[i])
    IN  DataFrame(df.columns, [k \in 1..Len(idx) |-> df.rows[idx[k]]])

\* df[col] == value
series_equal(df, col, value) == [i \in 1..Len(df.rows) |-> df.rows[i][col] = value]

\* pd.concat([a, b], ignore_index=True): a table without columns adds nothing, and
\* a cell of a column the row's table lacks is NaN
df_concat(a, b) ==
    LET cols == a.columns \cup b.columns
        widen(row) == [c \in cols |-> IF c \in DOMAIN row THEN row[c] ELSE NaN]
    IN  DataFrame(cols, [i \in 1..(Len(a.rows) + Len(b.rows)) |->
                            IF i <= Len(a.rows) THEN widen(a.rows[i])
                            ELSE widen(b.rows[i - Len(a.rows)])])

\* pd.to_numeric(df['Is Application'], errors='coerce').fillna(0).astype(int)
is_application_numeric(df) ==
    IF ~df_none_or_empty(df) /\ COL.is_application \in df.columns
    THEN DataFrame(df.columns,
                   [i \in 1..Len(df.rows) |->
                       [df.rows[i] EXCEPT ![COL.is_application] =
                           IF @ \in Int THEN @ ELSE 0]])
    ELSE df

\* the ASAP rows before their transformation: Round forced to the 2026 term and a
\* missing or empty school set to 'SES'
asap_prepared(data_asap) ==
    DataFrame(data_asap.columns \cup {COL.school},
              [i \in 1..Len(data_asap.rows) |->
                  LET row == data_asap.rows[i]
                      r0  == set_col(row, COL.round, <<"2", "0", "2", "6", " ", "S", "p", "r", "i", "n", "g", " ", "G", "r", "a", "d", "u", "a", "t", "e">>)
                  IN  IF COL.school \notin data_asap.columns
                      THEN set_col(r0, COL.school, <<"S", "E", "S">>)
                      ELSE IF row[COL.school] = <<>> THEN set_col(r0, COL.school, <<"S", "E", "S">>)
                      ELSE r0])

NoApplications ==
    [current |-> NoneDataFrame, previous |-> NoneDataFrame, two_years_ago |-> NoneDataFrame]

\* steps 5 and 6 of load_applications_data: the yearly tables from the transformed
\* slices std, the ASAP rows joining the current year
combine_main_asap(raw, data_asap, std) ==
    IF COL.round \notin raw.columns
    THEN [NoApplications EXCEPT !.current = std[<<"w", "h", "o", "l", "e">>]]
    ELSE [ two_years_ago |-> is_application_numeric(std[<<"2", "0", "2", "4">>]),
           previous      |-> is_application_numeric(std[<<"2", "0", "2", "5">>]),
           current       |-> is_application_numeric(
                                 df_concat(std[<<"2", "0", "2", "6">>],
                                           IF data_asap.rows /= <<>> THEN std[<<"A", "S", "A", "P">>]
                                           ELSE EmptyDataFrame)) ]

\* steps 2 to 4: the calls of transform_application_data, on the whole feed (no
\* Round column), on the three yearly MAIN slices and on the prepared ASAP rows
split_and_transform(raw, data_main, data_asap) ==
    combine_main_asap(raw, data_asap,
        [ slice \in { <<"w", "h", "o", "l", "e">>, <<"2", "0", "2", "4">>, <<"2", "0", "2", "5">>, <<"2", "0", "2", "6">>, <<"A", "S", "A", "P">> } |->
            transform_application_data(
                IF slice = <<"w", "h", "o", "l", "e">> THEN raw
                ELSE IF slice = <<"A", "S", "A", "P">> THEN asap_prepared(data_asap)
                ELSE df_filter(data_main,
                               [i \in 1..Len(data_main.rows) |->
                                   contains_nocase(slice, data_main.rows[i][COL.round])]),
                IF slice = <<"A", "S", "A", "P">> THEN <<"A", "S", "A", "P">> ELSE <<"M", "A", "I", "N">>) ])

\* load_applications_data from the point where the feed raw_df has been read;
\* derived holds the MAIN and ASAP parts with their enrollment status (steps 1, 1.5)
load_applications_data(raw) ==
    LET derived ==
            [ source \in { <<"M", "A", "I", "N">>, <<"A", "S", "A", "P">> } |->
                LET is_asap == IF COL.round \in raw.columns
                               THEN series_equal(raw, COL.round, <<"A", "S", "A", "P">>)
                               ELSE [i \in 1..Len(raw.rows) |-> FALSE]
                    part == df_filter(raw, [i \in 1..Len(raw.rows) |->
                                               is_asap[i] <=> (source = <<"A", "S", "A", "P">>)])
                IN  IF source = <<"A", "S", "A", "P">> /\ part.rows = <<>> THEN part
                    ELSE derive_yoy_status_from_enrollment_date(part).df ]
    IN  IF df_none_or_empty(raw) THEN NoApplications
        ELSE split_and_transform(raw, derived[<<"M", "A", "I", "N">>], derived[<<"A", "S", "A", "P">>])

-----------------------------------------------------------------------------
(* Analytics engine *)

\* a quotient numerator / denominator, kept exact; err is a raised ZeroDivisionError
Quotient(numerator, denominator) == [err |-> FALSE, num |-> numerator, den |-> denominator]

ZeroDivisionError == [err |-> TRUE, num |-> 0, den |-> 1]

\* mutant: the division without its guard
safe_divide_unguarded(numerator, denominator, default) ==
    IF denominator = 0 THEN ZeroDivisionError
    ELSE Quotient(numerator, denominator)

safe_divide(numerator, denominator, default) ==
    IF denominator = 0 THEN Quotient(default, 1)
    ELSE Quotient(numerator, denominator)

\* quotient * 100
times_100(q) == IF q.err THEN q ELSE [q EXCEPT !.num = @ * 100]

FunnelMetrics(year, applications_, admits, offers_accepted, enrollments) ==
    [ year |-> year, applications |-> applications_, admits |-> admits,
      offers_accepted |-> offers_accepted, enrollments |-> enrollments ]

admit_rate(self) == times_100(safe_divide(self.admits, self.applications, 0))
offer_rate(self) == times_100(safe_divide(self.offers_accepted, self.admits, 0))
yield_rate(self) == times_100(safe_divide(self.enrollments, self.admits, 0))
overall_conversion(self) == times_100(safe_divide(self.enrollments, self.applications, 0))

YoYComparison(current, previous) == [current |-> current, previous |-> previous]

apps_change(self) ==
    times_100(safe_divide(self.current.applications - self.previous.applications,
                          self.previous.applications, 0))
admits_change(self) ==
    times_100(safe_divide(self.current.admits - self.previous.admits,
                          self.previous.admits, 0))
enrollments_change(self) ==
    times_100(safe_divide(self.current.enrollments - self.previous.enrollments,
                          self.previous.enrollments, 0))

EnrollmentBreakdown(slate_new, census_new, continuing, returning) ==
    [ slate_new |-> slate_new, census_new |-> census_new,
      continuing |-> continuing, returning |-> returning ]

\* mutant: the census New count added in
EnrollmentBreakdown_total_with_census_new(self) ==
    self.slate_new + self.census_new + self.continuing + self.returning

\* EnrollmentBreakdown.total
EnrollmentBreakdown_total(self) == self.slate_new + self.continuing + self.returning

\* Series.sum()
RECURSIVE series_sum(_)
series_sum(series) ==
    IF series = <<>> THEN 0 ELSE series[1] + series_sum(Tail(series))

\* (df[col] == value).sum()
count_equal(df, col, value) ==
    series_sum([i \in 1..Len(df.rows) |-> IF series_equal(df, col, value)[i] THEN 1 ELSE 0])

\* mutant: enrollments counted among the admitted rows only
calculate_funnel_metrics_staged(df, year) ==
    IF df_none_or_empty(df) THEN FunnelMetrics(year, 0, 0, 0, 0)
    ELSE LET admitted == IF COL.admit_status \in df.columns
                         THEN df_filter(df, series_equal(df, COL.admit_status, <<"a", "d", "m", "i", "t", "t", "e", "d">>))
                         ELSE df
         IN  FunnelMetrics(
             year,
             IF COL.is_application \in df.columns
                 THEN series_sum([i \in 1..Len(df.rows) |-> df.rows[i][COL.is_application]])
                 ELSE Len(df.rows),
             IF COL.admit_status \in df.columns
                 THEN count_equal(df, COL.admit_status, <<"a", "d", "m", "i", "t", "t", "e", "d">>) ELSE 0,
             IF COL.offer_accepted \in df.columns
                 THEN count_equal(df, COL.offer_accepted, <<"y", "e", "s">>) ELSE 0,
             IF COL.enrolled \in df.columns
                 THEN count_equal(admitted, COL.enrolled, <<"y", "e", "s">>) ELSE 0)

calculate_funnel_metrics(df, year) ==
    IF df_none_or_empty(df) THEN FunnelMetrics(year, 0, 0, 0, 0)
    ELSE FunnelMetrics(
             year,
             IF COL.is_application \in df.columns
                 THEN series_sum([i \in 1..Len(df.rows) |-> df.rows[i][COL.is_application]])
                 ELSE Len(df.rows),
             IF COL.admit_status \in df.columns
                 THEN count_equal(df, COL.admit_status, <<"a", "d", "m", "i", "t", "t", "e", "d">>) ELSE 0,
             IF COL.offer_accepted \in df.columns
                 THEN count_equal(df, COL.offer_accepted, <<"y", "e", "s">>) ELSE 0,
             IF COL.enrolled \in df.columns
                 THEN count_equal(df, COL.enrolled, <<"y", "e", "s">>) ELSE 0)

\* mutant: the values of the current year's table only
calculate_breakdown_by_field_current_only(current_df, previous_df, two_years_ago_df, field) ==
    LET has_field(df) == ~df_none_or_empty(df) /\ field \in df.columns
        unique(df) == IF has_field(df)
                      THEN { df.rows[i][field] : i \in 1..Len(df.rows) } ELSE {}
        all_values == unique(current_df)
        df_of(year) == IF year = 2026 THEN current_df
                       ELSE IF year = 2025 THEN previous_df
                       ELSE two_years_ago_df
    IN  [ value \in { v \in all_values : truthy(v) } |->
            [ year \in {2026, 2025, 2024} |->
                IF ~has_field(df_of(year)) THEN FunnelMetrics(year, 0, 0, 0, 0)
                ELSE calculate_funnel_metrics(
                         df_filter(df_of(year), series_equal(df_of(year), field, value)),
                         year) ] ]

calculate_breakdown_by_field(current_df, previous_df, two_years_ago_df, field) ==
    LET has_field(df) == ~df_none_or_empty(df) /\ field \in df.columns
        unique(df) == IF has_field(df)
                      THEN { df.rows[i][field] : i \in 1..Len(df.rows) } ELSE {}
        all_values == unique(current_df) \cup unique(previous_df) \cup unique(two_years_ago_df)
        df_of(year) == IF year = 2026 THEN current_df
                       ELSE IF year = 2025 THEN previous_df
                       ELSE two_years_ago_df
    IN  [ value \in { v \in all_values : truthy(v) } |->
            [ year \in {2026, 2025, 2024} |->
                IF ~has_field(df_of(year)) THEN FunnelMetrics(year, 0, 0, 0, 0)
                ELSE calculate_funnel_metrics(
                         df_filter(df_of(year), series_equal(df_of(year), field, value)),
                         year) ] ]

calculate_summary_stats(current_df, previous_df, two_years_ago_df, census_enrollments) ==
    LET current_metrics   == calculate_funnel_metrics(current_df, 2026)
        previous_metrics  == calculate_funnel_metrics(previous_df, 2025)
        two_years_metrics == calculate_funnel_metrics(two_years_ago_df, 2024)
        breakdown(field)  ==
            calculate_breakdown_by_field(current_df, previous_df, two_years_ago_df, field)
    IN  [ overall |-> (2026 :> current_metrics) @@ (2025 :> previous_metrics)
                          @@ (2024 :> two_years_metrics),
          yoy |-> ("2026_vs_2025" :> YoYComparison(current_metrics, previous_metrics))
                      @@ ("2025_vs_2024" :> YoYComparison(previous_metrics, two_years_metrics)),
          enrollment_breakdown |->
              IF census_enrollments.isnone
              THEN EnrollmentBreakdown(current_metrics.enrollments, 0, 0, 0)
              ELSE EnrollmentBreakdown(current_metrics.enrollments,
                                       census_enrollments.new,
                                       census_enrollments.continuing,
                                       census_enrollments.returning),
          by_school   |-> breakdown(COL.school_expanded),
          by_category |-> breakdown(COL.category),
          by_degree   |-> breakdown(COL.degree_type) ]

-----------------------------------------------------------------------------
(* Census: the student classifiers and the NTR calculators.  A flag or credit
   cell of a census file is text until pd.to_numeric makes it a number *)

\* the census column names the code reads and writes
CEN ==
    [ semester          |-> <<"C", "e", "n", "s", "u", "s", "_", "1", "_", "S", "E", "M", "E", "S", "T", "E", "R">>,
      student_id        |-> <<"C", "e", "n", "s", "u", "s", "_", "1", "_", "S", "T", "U", "D", "E", "N", "T", "_", "I", "D">>,
      status            |-> <<"C", "e", "n", "s", "u", "s", "_", "1", "_", "S", "T", "U", "D", "E", "N", "T", "_", "S", "T", "A", "T", "U", "S">>,
      prev_summer       |-> <<"C", "e", "n", "s", "u", "s", "_", "1", "_", "E", "N", "R", "O", "L", "L", "E", "D", "_", "I", "N", "_", "P", "R", "E", "V", "I", "O", "U", "S", "_", "S", "U", "M", "M", "E", "R", "_", "S", "E", "M", "E", "S", "T", "E", "R", "_", "A", "S", "_", "N", "E", "W">>,
      degree_type       |-> <<"C", "e", "n", "s", "u", "s", "_", "1", "_", "D", "E", "G", "R", "E", "E", "_", "T", "Y", "P", "E">>,
      location          |-> <<"C", "e", "n", "s", "u", "s", "_", "1", "_", "S", "T", "U", "D", "E", "N", "T", "_", "L", "O", "C", "A", "T", "I", "O", "N", "_", "D", "E", "T", "A", "I", "L", "E", "D">>,
      corporate         |-> <<"C", "e", "n", "s", "u", "s", "_", "1", "_", "C", "O", "R", "P", "O", "R", "A", "T", "E", "_", "S", "T", "U", "D", "E", "N", "T">>,
      cohort            |-> <<"C", "e", "n", "s", "u", "s", "_", "1", "_", "C", "O", "R", "P", "O", "R", "A", "T", "E", "_", "C", "O", "H", "O", "R", "T">>,
      beacon_flag       |-> <<"C", "e", "n", "s", "u", "s", "_", "1", "_", "B", "E", "A", "C", "O", "N", "_", "F", "L", "A", "G">>,
      program           |-> <<"C", "e", "n", "s", "u", "s", "_", "1", "_", "P", "R", "I", "M", "A", "R", "Y", "_", "P", "R", "O", "G", "R", "A", "M", "_", "O", "F", "_", "S", "T", "U", "D", "Y">>,
      school            |-> <<"C", "e", "n", "s", "u", "s", "_", "1", "_", "S", "C", "H", "O", "O", "L">>,
      census3_credits   |-> <<"C", "e", "n", "s", "u", "s", "_", "1", "_", "C", "E", "N", "S", "U", "S", "3", "_", "T", "O", "T", "A", "L", "_", "N", "U", "M", "B", "E", "R", "_", "O", "F", "_", "C", "R", "E", "D", "I", "T", "_", "H", "O", "U", "R", "S">>,
      number_of_credits |-> <<"C", "e", "n", "s", "u", "s", "_", "1", "_", "N", "U", "M", "B", "E", "R", "_", "O", "F", "_", "C", "R", "E", "D", "I", "T", "S">>,
      credit_col        |-> <<"c", "r", "e", "d", "i", "t", "_", "c", "o", "l">>,
      student_type      |-> <<"S", "t", "u", "d", "e", "n", "t", "_", "T", "y", "p", "e">>,
      student_category  |-> <<"S", "t", "u", "d", "e", "n", "t", "_", "C", "a", "t", "e", "g", "o", "r", "y">> ]

\* pd.to_numeric(cell, errors='coerce') followed by fillna(0): a run of digits is its
\* number, a missing cell or any other text is 0
to_numeric_fillna(v) ==
    IF isna(v) \/ v = <<>> \/ \E i \in 1..Len(v) : ~is_digit(v[i]) THEN 0
    ELSE digits_value(v)

\* df[col] = pd.to_numeric(df[col], errors='coerce').fillna(0)
df_to_numeric(df, col) ==
    DataFrame(df.columns \cup {col},
              [i \in 1..Len(df.rows) |->
                  set_col(df.rows[i], col, to_numeric_fillna(df.rows[i][col]))])

\* df[col].isin(values)
series_isin(df, col, values) == [i \in 1..Len(df.rows) |-> df.rows[i][col] \in values]

\* df[col].nunique(): missing values are not counted
nunique(df, col) == Cardinality({ df.rows[i][col] : i \in 1..Len(df.rows) } \ {NaN})

\* ntr_calculator.classify_student_type (process_data.classify_student_type is the same)
classify_student_type(row) ==
    LET status      == row_get(row, CEN.status, <<>>)
        prev_summer == row_get(row, CEN.prev_summer, 0)
    IN  IF status \in { <<"C", "o", "n", "t", "i", "n", "u", "i", "n", "g">>, <<"R", "e", "t", "u", "r", "n", "i", "n", "g">> } THEN <<"C", "u", "r", "r", "e", "n", "t">>
        ELSE IF status = <<"N", "e", "w">>
             THEN IF prev_summer = 1 THEN <<"C", "u", "r", "r", "e", "n", "t">> ELSE <<"N", "e", "w">>
        ELSE <<"U", "n", "c", "a", "t", "e", "g", "o", "r", "i", "z", "e", "d">>

\* ntr_calculator.is_cpe_program over CPE_PROGRAMS['masters'] and ['graduate_certificate']
ntr_is_cpe_program(program_name) ==
    IF ~truthy(program_name) THEN FALSE
    ELSE LET program_lower == str_strip(str_lower(py_str(program_name)))
         IN  \E keyword \in
                 { <<"a", "p", "p", "l", "i", "e", "d", " ", "d", "a", "t", "a", " ", "s", "c", "i", "e", "n", "c", "e">>, <<"m", "e", "a", "d", "s">>,
                   <<"m", "a", "s", "t", "e", "r", " ", "o", "f", " ", "e", "n", "g", "i", "n", "e", "e", "r", "i", "n", "g", " ", "i", "n", " ", "a", "p", "p", "l", "i", "e", "d", " ", "d", "a", "t", "a", " ", "s", "c", "i", "e", "n", "c", "e">>,
                   <<"m", "e", " ", "i", "n", " ", "a", "p", "p", "l", "i", "e", "d", " ", "d", "a", "t", "a", " ", "s", "c", "i", "e", "n", "c", "e">>,
                   <<"e", "n", "t", "e", "r", "p", "r", "i", "s", "e", " ", "a", "i">>, <<"e", "n", "t", "e", "r", "p", "r", "i", "s", "e", " ", "a", "r", "t", "i", "f", "i", "c", "i", "a", "l", " ", "i", "n", "t", "e", "l", "l", "i", "g", "e", "n", "c", "e">>,
                   <<"p", "r", "o", "f", "e", "s", "s", "i", "o", "n", "a", "l", " ", "g", "r", "a", "d", "u", "a", "t", "e", " ", "c", "e", "r", "t", "i", "f", "i", "c", "a", "t", "e", " ", "i", "n", " ", "e", "n", "t", "e", "r", "p", "r", "i", "s", "e", " ", "a", "i">>,
                   <<"a", "p", "p", "l", "i", "e", "d", " ", "d", "a", "t", "a", " ", "s", "c", "i", "e", "n", "c", "e", " ", "f", "o", "u", "n", "d", "a", "t", "i", "o", "n", "s">>, <<"a", "d", "s", " ", "f", "o", "u", "n", "d", "a", "t", "i", "o", "n", "s">>,
                   <<"p", "r", "o", "f", "e", "s", "s", "i", "o", "n", "a", "l", " ", "g", "r", "a", "d", "u", "a", "t", "e", " ", "c", "e", "r", "t", "i", "f", "i", "c", "a", "t", "e", " ", "i", "n", " ", "a", "p", "p", "l", "i", "e", "d", " ", "d", "a", "t", "a", " ", "s", "c", "i", "e", "n", "c", "e", " ", "f", "o", "u", "n", "d", "a", "t", "i", "o", "n", "s">>,
                   <<"s", "y", "s", "t", "e", "m", "s", " ", "e", "n", "g", "i", "n", "e", "e", "r", "i", "n", "g", " ", "f", "o", "u", "n", "d", "a", "t", "i", "o", "n", "s">> } :
                 str_contains(keyword, program_lower)

\* ntr_calculator.is_cpe_school over CPE_SCHOOL_KEYWORDS
is_cpe_school(school_name) ==
    IF ~truthy(school_name) THEN FALSE
    ELSE LET school_lower == str_strip(str_lower(py_str(school_name)))
         IN  \E keyword \in { <<"c", "p", "e">>, <<"c", "o", "l", "l", "e", "g", "e", " ", "o", "f", " ", "p", "r", "o", "f", "e", "s", "s", "i", "o", "n", "a", "l", " ", "e", "d", "u", "c", "a", "t", "i", "o", "n">>,
                              <<"p", "r", "o", "f", "e", "s", "s", "i", "o", "n", "a", "l", " ", "e", "d", "u", "c", "a", "t", "i", "o", "n">> } :
                 str_contains(keyword, school_lower)

\* ntr_calculator.classify_student_category
classify_student_category(row) ==
    LET degree_type == row_get(row, CEN.degree_type, <<>>)
        location    == row_get(row, CEN.location, <<>>)
        corporate   == row_get(row, CEN.corporate, <<>>)
        beacon_flag == row_get(row, CEN.beacon_flag, 0)
        program     == row_get(row, CEN.program, <<>>)
        school      == row_get(row, CEN.school, <<>>)
    IN  IF ntr_is_cpe_program(program) \/ is_cpe_school(school) THEN <<"C", "P", "E">>
        ELSE IF degree_type = <<"N", "o", "n", "-", "D", "e", "g", "r", "e", "e">> /\ location \in { <<"O", "n", "l", "i", "n", "e">>, <<"O", "n", "l", "i", "n", "e", " ", "N", "o", "o", "d", "l", "e">> }
             THEN <<"A", "S", "A", "P">>
        ELSE IF location = <<"O", "n", "l", "i", "n", "e", " ", "N", "o", "o", "d", "l", "e">> THEN <<"S", "e", "l", "e", "c", "t", " ", "P", "r", "o", "f", "e", "s", "s", "i", "o", "n", "a", "l", " ", "O", "n", "l", "i", "n", "e">>
        ELSE IF beacon_flag = 1 THEN <<"B", "e", "a", "c", "o", "n">>
        ELSE IF location = <<"O", "n", "l", "i", "n", "e">> /\ corporate = <<"C", "o", "r", "p", "o", "r", "a", "t", "e">> /\ beacon_flag = 0
             THEN <<"C", "o", "r", "p", "o", "r", "a", "t", "e">>
        ELSE IF location = <<"O", "n", "l", "i", "n", "e">> /\ corporate = <<"N", "o", "n", "-", "C", "o", "r", "p", "o", "r", "a", "t", "e">> /\ beacon_flag = 0
             THEN <<"R", "e", "t", "a", "i", "l">>
        ELSE <<"U", "n", "c", "a", "t", "e", "g", "o", "r", "i", "z", "e", "d">>

\* process_data.is_cpe_program over CPE_PROGRAM_KEYWORDS
react_is_cpe_program(program_name) ==
    IF ~truthy(program_name) THEN FALSE
    ELSE LET program_lower == str_strip(str_lower(py_str(program_name)))
         IN  \E keyword \in CPE_PROGRAM_KEYWORDS \cup { <<"s", "y", "s", "t", "e", "m", "s", " ", "e", "n", "g", "i", "n", "e", "e", "r", "i", "n", "g", " ", "f", "o", "u", "n", "d", "a", "t", "i", "o", "n", "s">> } :
                 str_contains(keyword, program_lower)

\* process_data.reclassify_app_tags
react_reclassify_app_tags(row) ==
    IF py_str(row_get(row, COL.data_source, <<>>)) = <<"A", "S", "A", "P">> THEN <<"A", "S", "A", "P">>
    ELSE
    LET school_applied  == get_single_value(row_get(row, COL.school, <<>>))
        degree_interest == get_single_value(row_get(row, COL.degree, <<>>))
        program         == get_single_value(row_get(row, COL.program, <<>>))
        school_upper    == str_strip(str_upper(py_str(school_applied)))
    IN  IF str_contains(<<"C", "P", "E">>, school_upper) THEN <<"C", "P", "E">>
        ELSE IF react_is_cpe_program(program) THEN <<"C", "P", "E">>
        ELSE IF blank_school_rule(school_applied, school_upper, degree_interest) THEN <<"C", "P", "E">>
        ELSE
        LET tag                 == py_str(get_single_value(row_get(row, COL.tags, <<>>)))
            employer            == get_single_value(row_get(row, COL.employer, <<>>))
            sponsoring_employer == get_single_value(row_get(row, COL.sponsor, <<>>))
            noodle_exception    == str_lower(py_str(get_single_value(row_get(row, COL.noodle, <<>>))))
            special_program     == get_single_value(row_get(row, COL.special, <<>>))
        IN  IF retail_tag_rule(tag) THEN <<"S", "t", "e", "v", "e", "n", "s", " ", "O", "n", "l", "i", "n", "e", " ", "(", "R", "e", "t", "a", "i", "l", ")">>
            ELSE IF is_number(special_program) THEN AttributeError
            ELSE IF special_program_rule(special_program) THEN <<"S", "p", "e", "c", "i", "a", "l", " ", "P", "r", "o", "g", "r", "a", "m">>
            ELSE IF noodle_rule(tag, noodle_exception) THEN <<"S", "e", "l", "e", "c", "t", " ", "P", "r", "o", "f", "e", "s", "s", "i", "o", "n", "a", "l", " ", "O", "n", "l", "i", "n", "e">>
            ELSE IF beacon_rule(tag) THEN <<"B", "e", "a", "c", "o", "n">>
            ELSE IF corporate_rule_raises(tag, employer, sponsoring_employer) THEN AttributeError
            ELSE IF corporate_rule(tag, employer, sponsoring_employer)
                 THEN <<"S", "t", "e", "v", "e", "n", "s", " ", "O", "n", "l", "i", "n", "e", " ", "(", "C", "o", "r", "p", "o", "r", "a", "t", "e", ")">>
            ELSE default_category

\* process_data.is_cpe_school over CPE_SCHOOL_KEYWORDS
react_is_cpe_school(school_name) ==
    IF ~truthy(school_name) THEN FALSE
    ELSE LET school_lower == str_strip(str_lower(py_str(school_name)))
         IN  \E keyword \in { <<"c", "p", "e">>, <<"c", "o", "l", "l", "e", "g", "e", " ", "o", "f", " ", "p", "r", "o", "f", "e", "s", "s", "i", "o", "n", "a", "l", " ", "e", "d", "u", "c", "a", "t", "i", "o", "n">>,
                              <<"p", "r", "o", "f", "e", "s", "s", "i", "o", "n", "a", "l", " ", "e", "d", "u", "c", "a", "t", "i", "o", "n">>,
                              <<"c", "o", "n", "t", "i", "n", "u", "i", "n", "g", " ", "a", "n", "d", " ", "p", "r", "o", "f", "e", "s", "s", "i", "o", "n", "a", "l", " ", "e", "d", "u", "c", "a", "t", "i", "o", "n">> } :
                 str_contains(keyword, school_lower)

\* process_data.categorize_census_row
categorize_census_row(row) ==
    LET degree_type      == str_strip(py_str(row_get(row, CEN.degree_type, <<>>)))
        location         == str_strip(py_str(row_get(row, CEN.location, <<>>)))
        corporate_flag   == str_strip(py_str(row_get(row, CEN.corporate, <<>>)))
        corporate_cohort == str_strip(py_str(row_get(row, CEN.cohort, <<>>)))
        beacon_flag      == row_get(row, CEN.beacon_flag, 0)
        program          == str_strip(py_str(row_get(row, CEN.program, <<>>)))
        school           == str_strip(py_str(row_get(row, CEN.school, <<>>)))
    IN  IF react_is_cpe_school(school) \/ react_is_cpe_program(program) THEN <<"C", "P", "E">>
        ELSE IF degree_type = <<"N", "o", "n", "-", "D", "e", "g", "r", "e", "e">> THEN <<"A", "S", "A", "P">>
        ELSE IF location = <<"O", "n", "l", "i", "n", "e", " ", "N", "o", "o", "d", "l", "e">> THEN <<"S", "e", "l", "e", "c", "t", " ", "P", "r", "o", "f", "e", "s", "s", "i", "o", "n", "a", "l", " ", "O", "n", "l", "i", "n", "e">>
        ELSE IF beacon_flag = 1 THEN <<"B", "e", "a", "c", "o", "n">>
        ELSE IF location = <<"O", "n", "l", "i", "n", "e">> /\ corporate_flag = <<"C", "o", "r", "p", "o", "r", "a", "t", "e">>
             THEN IF str_lower(corporate_cohort) \in { <<"n", "o", "t", " ", "r", "e", "p", "o", "r", "t", "e", "d">>, <<>>, <<"n", "a", "n">>, <<"n", "o", "n", "e">> }
                  THEN <<"S", "t", "e", "v", "e", "n", "s", " ", "O", "n", "l", "i", "n", "e", " ", "(", "R", "e", "t", "a", "i", "l", ")">>
                  ELSE <<"S", "t", "e", "v", "e", "n", "s", " ", "O", "n", "l", "i", "n", "e", " ", "(", "C", "o", "r", "p", "o", "r", "a", "t", "e", ")">>
        ELSE IF location = <<"O", "n", "l", "i", "n", "e">> THEN <<"S", "t", "e", "v", "e", "n", "s", " ", "O", "n", "l", "i", "n", "e", " ", "(", "R", "e", "t", "a", "i", "l", ")">>
        ELSE <<"U", "n", "c", "a", "t", "e", "g", "o", "r", "i", "z", "e", "d">>

\* data_loader._categorize_census_row
_categorize_census_row(row) ==
    LET degree_type    == str_strip(py_str(row_get(row, CEN.degree_type, <<>>)))
        location       == str_strip(py_str(row_get(row, CEN.location, <<>>)))
        corporate_flag == str_strip(py_str(row_get(row, CEN.corporate, <<>>)))
        beacon_flag    == row_get(row, CEN.beacon_flag, 0)
    IN  IF degree_type = <<"N", "o", "n", "-", "D", "e", "g", "r", "e", "e">> THEN <<"A", "S", "A", "P">>
        ELSE IF location = <<"O", "n", "l", "i", "n", "e", " ", "N", "o", "o", "d", "l", "e">> THEN <<"S", "e", "l", "e", "c", "t", " ", "P", "r", "o", "f", "e", "s", "s", "i", "o", "n", "a", "l", " ", "O", "n", "l", "i", "n", "e">>
        ELSE IF beacon_flag = 1 THEN <<"B", "e", "a", "c", "o", "n">>
        ELSE IF location = <<"O", "n", "l", "i", "n", "e">> /\ corporate_flag = <<"C", "o", "r", "p", "o", "r", "a", "t", "e">> THEN <<"C", "o", "r", "p", "o", "r", "a", "t", "e">>
        ELSE IF location = <<"O", "n", "l", "i", "n", "e">> THEN <<"R", "e", "t", "a", "i", "l">>
        ELSE <<"U", "n", "c", "a", "t", "e", "g", "o", "r", "i", "z", "e", "d">>

\* CPC_RATES: cost per credit by (category, degree type, student type)
CPC_RATES ==
    LET rate_pair(category, degree_type, new, current) ==
            (<<category, degree_type, <<"N", "e", "w">>>> :> new)
            @@ (<<category, degree_type, <<"C", "u", "r", "r", "e", "n", "t">>>> :> current)
    IN  rate_pair(<<"S", "e", "l", "e", "c", "t", " ", "P", "r", "o", "f", "e", "s", "s", "i", "o", "n", "a", "l", " ", "O", "n", "l", "i", "n", "e">>, <<"M", "a", "s", "t", "e", "r", "s">>, 1395, 1650)
        @@ rate_pair(<<"B", "e", "a", "c", "o", "n">>, <<"M", "a", "s", "t", "e", "r", "s">>, 290, 290)
        @@ rate_pair(<<"S", "t", "e", "v", "e", "n", "s", " ", "O", "n", "l", "i", "n", "e", " ", "(", "C", "o", "r", "p", "o", "r", "a", "t", "e", ")">>, <<"M", "a", "s", "t", "e", "r", "s">>, 1300, 1550)
        @@ rate_pair(<<"S", "t", "e", "v", "e", "n", "s", " ", "O", "n", "l", "i", "n", "e", " ", "(", "C", "o", "r", "p", "o", "r", "a", "t", "e", ")">>, <<"G", "r", "a", "d", "u", "a", "t", "e", " ", "C", "e", "r", "t", "i", "f", "i", "c", "a", "t", "e">>, 1195, 1195)
        @@ rate_pair(<<"S", "t", "e", "v", "e", "n", "s", " ", "O", "n", "l", "i", "n", "e", " ", "(", "R", "e", "t", "a", "i", "l", ")">>, <<"M", "a", "s", "t", "e", "r", "s">>, 1395, 1723)
        @@ rate_pair(<<"S", "t", "e", "v", "e", "n", "s", " ", "O", "n", "l", "i", "n", "e", " ", "(", "R", "e", "t", "a", "i", "l", ")">>, <<"G", "r", "a", "d", "u", "a", "t", "e", " ", "C", "e", "r", "t", "i", "f", "i", "c", "a", "t", "e">>, 1993, 2030)
        @@ rate_pair(<<"A", "S", "A", "P">>, <<"N", "o", "n", "-", "D", "e", "g", "r", "e", "e">>, 875, 875)
        @@ rate_pair(<<"C", "o", "r", "p", "o", "r", "a", "t", "e">>, <<"M", "a", "s", "t", "e", "r", "s">>, 1300, 1550)
        @@ rate_pair(<<"C", "o", "r", "p", "o", "r", "a", "t", "e">>, <<"G", "r", "a", "d", "u", "a", "t", "e", " ", "C", "e", "r", "t", "i", "f", "i", "c", "a", "t", "e">>, 1195, 1195)
        @@ rate_pair(<<"R", "e", "t", "a", "i", "l">>, <<"M", "a", "s", "t", "e", "r", "s">>, 1395, 1723)
        @@ rate_pair(<<"R", "e", "t", "a", "i", "l">>, <<"G", "r", "a", "d", "u", "a", "t", "e", " ", "C", "e", "r", "t", "i", "f", "i", "c", "a", "t", "e">>, 1993, 2030)
        @@ rate_pair(<<"C", "P", "E">>, <<"M", "a", "s", "t", "e", "r", "s">>, 800, 800)
        @@ rate_pair(<<"C", "P", "E">>, <<"G", "r", "a", "d", "u", "a", "t", "e", " ", "C", "e", "r", "t", "i", "f", "i", "c", "a", "t", "e">>, 583, 583)
        @@ rate_pair(<<"C", "P", "E">>, <<"P", "r", "o", "f", "e", "s", "s", "i", "o", "n", "a", "l", " ", "G", "r", "a", "d", "u", "a", "t", "e", " ", "C", "e", "r", "t", "i", "f", "i", "c", "a", "t", "e">>, 583, 583)

DEFAULT_NTR_GOAL == 9800000

\* mutant: a rate for every triple
get_cpc_rate_flat(category, degree_type, student_type) ==
    IF <<category, degree_type, student_type>> \in DOMAIN CPC_RATES
    THEN CPC_RATES[<<category, degree_type, student_type>>]
    ELSE 875

get_cpc_rate(category, degree_type, student_type) ==
    IF <<category, degree_type, student_type>> \in DOMAIN CPC_RATES
    THEN CPC_RATES[<<category, degree_type, student_type>>]
    ELSE IF str_startswith(category, <<"S", "t", "e", "v", "e", "n", "s", " ", "O", "n", "l", "i", "n", "e">>)
              /\ <<str_replace(str_replace(category, <<"S", "t", "e", "v", "e", "n", "s", " ", "O", "n", "l", "i", "n", "e", " ", "(">>, <<>>), <<")">>, <<>>),
                   degree_type, student_type>> \in DOMAIN CPC_RATES
         THEN CPC_RATES[<<str_replace(str_replace(category, <<"S", "t", "e", "v", "e", "n", "s", " ", "O", "n", "l", "i", "n", "e", " ", "(">>, <<>>),
                                      <<")">>, <<>>),
                          degree_type, student_type>>]
         ELSE 0

\* the sum of one field over the rows of a breakdown, as the loop accumulates it
RECURSIVE sum_field(_, _)
sum_field(breakdown, field) ==
    IF DOMAIN breakdown = {} THEN 0
    ELSE LET key == CHOOSE k \in DOMAIN breakdown : TRUE
         IN  breakdown[key][field]
                 + sum_field([k \in DOMAIN breakdown \ {key} |-> breakdown[k]], field)

\* (None, [], pd.DataFrame())
NoNTR == [ isnone |-> TRUE, summary |-> <<>>, category_breakdown |-> <<>>,
           breakdown_df |-> EmptyDataFrame ]

\* the table after the semester filter, the numeric conversions and the two
\* classifications of calculate_ntr_from_census (credit_col is in its columns)
classify_census(census_df, semester, credit_col) ==
    LET in_semester == IF CEN.semester \in census_df.columns
                       THEN df_filter(census_df, series_equal(census_df, CEN.semester, semester))
                       ELSE census_df
        credits     == df_to_numeric(in_semester, credit_col)
        beacon      == df_to_numeric(credits, CEN.beacon_flag)
        numeric     == IF CEN.prev_summer \in beacon.columns
                       THEN df_to_numeric(beacon, CEN.prev_summer) ELSE beacon
    IN  DataFrame(numeric.columns \cup {CEN.student_type, CEN.student_category},
                  [i \in 1..Len(numeric.rows) |->
                      set_col(set_col(numeric.rows[i], CEN.student_type,
                                      classify_student_type(numeric.rows[i])),
                              CEN.student_category,
                              classify_student_category(numeric.rows[i]))])

\* mutant: every classified row kept
in_scope_census_unfiltered(df) == df

\* the rows of valid_categories and valid_degrees
in_scope_census(df) ==
    df_filter(df, [i \in 1..Len(df.rows) |->
        /\ series_isin(df, CEN.student_category,
                       { <<"A", "S", "A", "P">>, <<"S", "e", "l", "e", "c", "t", " ", "P", "r", "o", "f", "e", "s", "s", "i", "o", "n", "a", "l", " ", "O", "n", "l", "i", "n", "e">>, <<"B", "e", "a", "c", "o", "n">>, <<"C", "o", "r", "p", "o", "r", "a", "t", "e">>,
                         <<"R", "e", "t", "a", "i", "l">>, <<"C", "P", "E">> })[i]
        /\ series_isin(df, CEN.degree_type,
                       { <<"M", "a", "s", "t", "e", "r", "s">>, <<"G", "r", "a", "d", "u", "a", "t", "e", " ", "C", "e", "r", "t", "i", "f", "i", "c", "a", "t", "e">>, <<"N", "o", "n", "-", "D", "e", "g", "r", "e", "e">>,
                         <<"P", "r", "o", "f", "e", "s", "s", "i", "o", "n", "a", "l", " ", "G", "r", "a", "d", "u", "a", "t", "e", " ", "C", "e", "r", "t", "i", "f", "i", "c", "a", "t", "e">> })[i]])

\* mutant: students counted by rows
group_student_count_rows(group) == Len(group.rows)

\* Student_Count=(student_id_col, 'nunique') of one group
group_student_count(group) == nunique(group, CEN.student_id)

\* the aggregation, the pivots and the loop of calculate_ntr_from_census on the
\* in-scope rows: one CategoryNTR for each (category, degree type). The list's order
\* (that of the pivot's index) is not represented
ntr_breakdown(df, credit_col) ==
    LET group(category, degree_type, student_type) ==
            df_filter(df, [i \in 1..Len(df.rows) |->
                /\ df.rows[i][CEN.student_category] = category
                /\ df.rows[i][CEN.degree_type] = degree_type
                /\ df.rows[i][CEN.student_type] = student_type])
        credits(g) == series_sum([i \in 1..Len(g.rows) |-> g.rows[i][credit_col]])
        CategoryNTR(category, degree_type, new, current) ==
            [ category         |-> category,
              degree_type      |-> degree_type,
              new_students     |-> group_student_count(new),
              current_students |-> group_student_count(current),
              total_students   |-> group_student_count(new) + group_student_count(current),
              new_credits      |-> credits(new),
              current_credits  |-> credits(current),
              total_credits    |-> credits(new) + credits(current),
              cpc_new          |-> get_cpc_rate(category, degree_type, <<"N", "e", "w">>),
              cpc_current      |-> get_cpc_rate(category, degree_type, <<"C", "u", "r", "r", "e", "n", "t">>),
              ntr_new          |-> credits(new) * get_cpc_rate(category, degree_type, <<"N", "e", "w">>),
              ntr_current      |-> credits(current)
                                       * get_cpc_rate(category, degree_type, <<"C", "u", "r", "r", "e", "n", "t">>),
              total_ntr        |-> credits(new) * get_cpc_rate(category, degree_type, <<"N", "e", "w">>)
                                       + credits(current)
                                           * get_cpc_rate(category, degree_type, <<"C", "u", "r", "r", "e", "n", "t">>) ]
    IN  [ key \in { <<df.rows[i][CEN.student_category], df.rows[i][CEN.degree_type]>> :
                      i \in 1..Len(df.rows) } |->
            CategoryNTR(key[1], key[2], group(key[1], key[2], <<"N", "e", "w">>),
                        group(key[1], key[2], <<"C", "u", "r", "r", "e", "n", "t">>)) ]

\* NTRSummary and the detailed table of calculate_ntr_from_census
ntr_result(category_breakdown, ntr_goal) ==
    LET total(field) == sum_field(category_breakdown, field)
        ntr_summary ==
            [ total_ntr          |-> total("total_ntr"),
              ntr_goal           |-> ntr_goal,
              percentage_of_goal |-> IF ntr_goal > 0
                                     THEN times_100(Quotient(total("total_ntr"), ntr_goal))
                                     ELSE Quotient(0, 1),
              gap_to_goal        |-> ntr_goal - total("total_ntr"),
              total_students     |-> total("total_students"),
              total_credits      |-> total("total_credits"),
              new_students       |-> total("new_students"),
              current_students   |-> total("current_students"),
              new_credits        |-> total("new_credits"),
              current_credits    |-> total("current_credits"),
              new_ntr            |-> total("ntr_new"),
              current_ntr        |-> total("ntr_current") ]
    IN  [ isnone |-> FALSE,
          summary |-> ntr_summary,
          category_breakdown |-> category_breakdown,
          breakdown_df |->
              [ rows |-> category_breakdown,
                grand_total |->
                    [ new_students     |-> ntr_summary.new_students,
                      current_students |-> ntr_summary.current_students,
                      total_students   |-> ntr_summary.total_students,
                      new_credits      |-> ntr_summary.new_credits,
                      current_credits  |-> ntr_summary.current_credits,
                      total_credits    |-> ntr_summary.total_credits,
                      ntr_new          |-> ntr_summary.new_ntr,
                      ntr_current      |-> ntr_summary.current_ntr,
                      total_ntr        |-> ntr_summary.total_ntr ] ] ]

calculate_ntr_from_census(census_df, ntr_goal, semester) ==
    IF df_none_or_empty(census_df) THEN NoNTR
    ELSE LET credit_col == IF CEN.census3_credits \in census_df.columns
                           THEN CEN.census3_credits ELSE CEN.number_of_credits
         IN  IF credit_col \notin census_df.columns THEN NoNTR
             ELSE LET df == in_scope_census(classify_census(census_df, semester, credit_col))
                  IN  IF df.rows = <<>> THEN NoNTR
                      ELSE ntr_result(ntr_breakdown(df, credit_col), ntr_goal)

\* {}: load_census_data found no file, or no row in scope
NoCensusData ==
    [ isnone |-> TRUE, total |-> 0, new |-> 0, continuing |-> 0, returning |-> 0,
      by_category |-> <<>>, total_credits |-> 0, credit_column |-> <<>>,
      raw_df |-> NoneDataFrame ]

\* the rows of the semester, of the online locations and of the graduate degree types
census_scope_filter(df, semester) ==
    df_filter(df, [i \in 1..Len(df.rows) |->
        /\ series_equal(df, CEN.semester, semester)[i]
        /\ series_isin(df, CEN.location, { <<"O", "n", "l", "i", "n", "e">>, <<"O", "n", "l", "i", "n", "e", " ", "N", "o", "o", "d", "l", "e">> })[i]
        /\ series_isin(df, CEN.degree_type,
                       { <<"M", "a", "s", "t", "e", "r", "s">>, <<"G", "r", "a", "d", "u", "a", "t", "e", " ", "C", "e", "r", "t", "i", "f", "i", "c", "a", "t", "e">>, <<"N", "o", "n", "-", "D", "e", "g", "r", "e", "e">> })[i]])

\* int((df['Census_1_STUDENT_STATUS'] == status).sum())
census_status_count(df, status) == count_equal(df, CEN.status, status)

\* data_loader.load_census_data (and _load_census_from_bytes) on the table read from
\* the census file; a missing file is NoneDataFrame
load_census_data(file_df, semester) ==
    IF file_df.isnone THEN NoCensusData
    ELSE LET scoped == census_scope_filter(file_df, semester)
             credit_col == IF CEN.census3_credits \in scoped.columns
                           THEN CEN.census3_credits ELSE CEN.number_of_credits
             numeric == df_to_numeric(df_to_numeric(scoped, CEN.beacon_flag), credit_col)
             df == DataFrame(numeric.columns \cup {CEN.student_category},
                             [i \in 1..Len(numeric.rows) |->
                                 set_col(numeric.rows[i], CEN.student_category,
                                         _categorize_census_row(numeric.rows[i]))])
         IN  IF scoped.rows = <<>> THEN NoCensusData
             ELSE [ isnone        |-> FALSE,
                    total         |-> IF CEN.student_id \in df.columns
                                      THEN nunique(df, CEN.student_id) ELSE Len(df.rows),
                    new           |-> census_status_count(df, <<"N", "e", "w">>),
                    continuing    |-> census_status_count(df, <<"C", "o", "n", "t", "i", "n", "u", "i", "n", "g">>),
                    returning     |-> census_status_count(df, <<"R", "e", "t", "u", "r", "n", "i", "n", "g">>),
                    by_category   |->
                        [ category \in { df.rows[i][CEN.student_category] :
                                           i \in 1..Len(df.rows) } |->
                            count_equal(df, CEN.student_category, category) ],
                    total_credits |->
                        series_sum([i \in 1..Len(df.rows) |-> df.rows[i][credit_col]]),
                    credit_column |-> credit_col,
                    raw_df        |-> df ]

\* process_data.load_census_data on the table read from the census file
react_load_census_data(file_df, semester) ==
    IF file_df.isnone THEN NoneDataFrame
    ELSE LET scoped == census_scope_filter(file_df, semester)
             credit_col == IF CEN.census3_credits \in scoped.columns
                           THEN CEN.census3_credits ELSE CEN.number_of_credits
             beacon  == df_to_numeric(df_to_numeric(scoped, CEN.beacon_flag), credit_col)
             numeric == IF CEN.prev_summer \in beacon.columns
                        THEN df_to_numeric(beacon, CEN.prev_summer) ELSE beacon
         IN  DataFrame(numeric.columns
                           \cup {CEN.credit_col, CEN.student_category, CEN.student_type},
                       [i \in 1..Len(numeric.rows) |->
                           set_col(set_col(set_col(numeric.rows[i], CEN.credit_col, credit_col),
                                           CEN.student_category,
                                           categorize_census_row(numeric.rows[i])),
                                   CEN.student_type,
                                   classify_student_type(numeric.rows[i]))])

\* round(x * 100, 1) of the quotient x = numerator / denominator, in tenths
round_percent_tenths(numerator, denominator) ==
    LET q == (numerator * 1000) \div denominator
        r == (numerator * 1000) % denominator
    IN  IF 2 * r > denominator \/ (2 * r = denominator /\ q % 2 = 1) THEN q + 1 ELSE q

\* process_data.calculate_ntr_metrics. The lists byCategory and breakdown are keyed
\* by (category, degree type); their order (by NTR, descending) is not represented
calculate_ntr_metrics(census_df) ==
    LET credit_col ==
            IF ~df_none_or_empty(census_df) /\ CEN.credit_col \in census_df.columns
            THEN census_df.rows[1][CEN.credit_col] ELSE CEN.number_of_credits
        rows == census_df.rows
        keys == { <<rows[i][CEN.student_category], rows[i][CEN.degree_type]>> :
                    i \in 1..Len(rows) }
        typed(key, student_type) ==
            df_filter(census_df, [i \in 1..Len(rows) |->
                /\ rows[i][CEN.student_category] = key[1]
                /\ rows[i][CEN.degree_type] = key[2]
                /\ rows[i][CEN.student_type] = student_type])
        credits(g) == series_sum([i \in 1..Len(g.rows) |-> g.rows[i][credit_col]])
        short(cat) == str_replace(str_replace(cat, <<"S", "t", "e", "v", "e", "n", "s", " ", "O", "n", "l", "i", "n", "e", " ", "(">>, <<>>), <<")">>, <<>>)
        group ==
            [ key \in keys |->
                [ category        |-> short(key[1]),
                  degreeType      |-> key[2],
                  newStudents     |-> Len(typed(key, <<"N", "e", "w">>).rows),
                  currentStudents |-> Len(typed(key, <<"C", "u", "r", "r", "e", "n", "t">>).rows),
                  totalStudents   |-> Len(typed(key, <<"N", "e", "w">>).rows)
                                          + Len(typed(key, <<"C", "u", "r", "r", "e", "n", "t">>).rows),
                  newCredits      |-> credits(typed(key, <<"N", "e", "w">>)),
                  currentCredits  |-> credits(typed(key, <<"C", "u", "r", "r", "e", "n", "t">>)),
                  totalCredits    |-> credits(typed(key, <<"N", "e", "w">>))
                                          + credits(typed(key, <<"C", "u", "r", "r", "e", "n", "t">>)),
                  cpcNew          |-> get_cpc_rate(key[1], key[2], <<"N", "e", "w">>),
                  cpcCurrent      |-> get_cpc_rate(key[1], key[2], <<"C", "u", "r", "r", "e", "n", "t">>),
                  ntrNew          |-> credits(typed(key, <<"N", "e", "w">>))
                                          * get_cpc_rate(key[1], key[2], <<"N", "e", "w">>),
                  ntrCurrent      |-> credits(typed(key, <<"C", "u", "r", "r", "e", "n", "t">>))
                                          * get_cpc_rate(key[1], key[2], <<"C", "u", "r", "r", "e", "n", "t">>),
                  totalNtr        |-> credits(typed(key, <<"N", "e", "w">>))
                                          * get_cpc_rate(key[1], key[2], <<"N", "e", "w">>)
                                      + credits(typed(key, <<"C", "u", "r", "r", "e", "n", "t">>))
                                          * get_cpc_rate(key[1], key[2], <<"C", "u", "r", "r", "e", "n", "t">>) ] ]
        total(field) == sum_field(group, field)
    IN  IF df_none_or_empty(census_df)
        THEN [ total |-> 0, goal |-> DEFAULT_NTR_GOAL, percentOfGoal |-> 0,
               gapToGoal |-> DEFAULT_NTR_GOAL, newNTR |-> 0, currentNTR |-> 0,
               newStudents |-> 0, currentStudents |-> 0, newCredits |-> 0,
               currentCredits |-> 0, totalStudents |-> 0, totalCredits |-> 0,
               byCategory |-> <<>>, breakdown |-> <<>>,
               byStudentType |-> [ New |-> [ntr |-> 0, students |-> 0, credits |-> 0],
                                   Current |-> [ntr |-> 0, students |-> 0, credits |-> 0] ] ]
        ELSE [ total           |-> total("totalNtr"),
               goal            |-> DEFAULT_NTR_GOAL,
               percentOfGoal   |-> round_percent_tenths(total("totalNtr"), DEFAULT_NTR_GOAL),
               gapToGoal       |-> IF DEFAULT_NTR_GOAL - total("totalNtr") > 0
                                   THEN DEFAULT_NTR_GOAL - total("totalNtr") ELSE 0,
               newNTR          |-> total("ntrNew"),
               currentNTR      |-> total("ntrCurrent"),
               newStudents     |-> total("newStudents"),
               currentStudents |-> total("currentStudents"),
               newCredits      |-> total("newCredits"),
               currentCredits  |-> total("currentCredits"),
               totalStudents   |-> total("newStudents") + total("currentStudents"),
               totalCredits    |-> total("newCredits") + total("currentCredits"),
               byCategory      |->
                   [ key \in { k \in keys : group[k].totalNtr > 0 } |->
                       [ category |-> group[key].category,
                         degreeType |-> group[key].degreeType,
                         ntr |-> group[key].totalNtr,
                         students |-> group[key].totalStudents,
                         credits |-> group[key].totalCredits ] ],
               breakdown       |->
                   [ key \in { k \in keys : group[k].newStudents > 0
                                               \/ group[k].currentStudents > 0 } |->
                       group[key] ],
               byStudentType   |->
                   [ New     |-> [ ntr |-> total("ntrNew"), students |-> total("newStudents"),
                                   credits |-> total("newCredits") ],
                     Current |-> [ ntr |-> total("ntrCurrent"),
                                   students |-> total("currentStudents"),
                                   credits |-> total("currentCredits") ] ] ]

-----------------------------------------------------------------------------
(* Inputs of the classification scenarios *)

AppRow(ds, school, degree, program, tag, employer, sponsor, noodle, special) ==
    (COL.data_source :> ds) @@ (COL.school :> school) @@ (COL.degree :> degree)
    @@ (COL.program :> program) @@ (COL.tags :> tag) @@ (COL.employer :> employer)
    @@ (COL.sponsor :> sponsor) @@ (COL.noodle :> noodle) @@ (COL.special :> special)

AppRows ==
    { AppRow(ds, school, degree, program, tag, employer, sponsor, noodle, special) :
        ds \in { <<"M", "A", "I", "N">>, <<"A", "S", "A", "P">> },
        school \in { <<>>, <<" ">>, NaN, <<"c", "p", "e">>, <<"S", "E", "S">> },
        degree \in { <<"M", "a", "s", "t", "e", "r", "s">>, <<"D", "u", "a", "l", " ", "D", "e", "g", "r", "e", "e">>, <<" ", "D", "u", "a", "l", " ", "D", "e", "g", "r", "e", "e">> },
        program \in { <<>>, <<"M", "E", "A", "D", "S", " ", "O", "n", "l", "i", "n", "e">>, <<"S", "y", "s", "t", "e", "m", "s", " ", "E", "n", "g", "i", "n", "e", "e", "r", "i", "n", "g", " ", "F", "o", "u", "n", "d", "a", "t", "i", "o", "n", "s">> },
        tag \in { <<>>, <<" ">>, NaN, <<"E", "D", "D", " ", "N", "o", "o", "d", "l", "e">>, <<"N", "o", "o", "d", "l", "e">>, <<"N", "o", "o", "d", "l", "e", " ", "B", "e", "a", "c", "o", "n">>,
                  <<"B", "e", "a", "c", "o", "n", " ", "C", "o", "r", "p", "o", "r", "a", "t", "e">>, <<"C", "o", "r", "p", "o", "r", "a", "t", "e">>, <<"O", "t", "h", "e", "r">> },
        employer \in { <<>>, <<" ">>, <<"P", "f", "i", "z", "e", "r">> },
        sponsor \in { <<>>, <<"B", "A", "E">> },
        noodle \in { <<>>, <<"e", "x", "c", "l", "u", "d", "e">>, <<"E", "x", "c", "l", "u", "d", "e">>, <<"o", "k">> },
        special \in { <<>>, <<" ">>, <<"V", "e", "t">> } }

SchoolInputs ==
    { NaN, <<>>, <<" ">>, <<"s", "o", "b">>, <<"S", "S", "B">>, <<" ", "s", "e", "s", " ">>, <<"s", "s", "e">>, <<"D", "u", "a", "l", " ", "D", "e", "g", "r", "e", "e">>,
      <<"S", "c", "h", "o", "o", "l", " ", "o", "f", " ", "B", "u", "s", "i", "n", "e", "s", "s">>, <<"S", "c", "h", "o", "o", "l", " ", "o", "f", " ", "S", "y", "s", "t", "e", "m", "s", " ", "a", "n", "d", " ", "E", "n", "t", "e", "r", "p", "r", "i", "s", "e", "s">>, <<"c", "p", "e">>,
      <<"C", "P", "E", " ", "D", "u", "a", "l", " ", "D", "e", "g", "r", "e", "e">>, <<"D", "u", "a", "l", " ", "C", "P", "E">>, <<"P", "r", "o", "f", "e", "s", "s", "i", "o", "n", "a", "l", " ", "E", "d", "u", "c", "a", "t", "i", "o", "n">>,
      <<"C", "o", "l", "l", "e", "g", "e", " ", "o", "f", " ", "P", "r", "o", "f", "e", "s", "s", "i", "o", "n", "a", "l", " ", "E", "d", "u", "c", "a", "t", "i", "o", "n">>, <<"L", "a", "w">>, <<"o", "n", "l", "i", "n", "e", " ", "c", "p", "e">> }

NoRow == <<>>

Unset == <<"unset">>

NoSchool == [ loader |-> <<>>, react |-> <<>> ]

\* the rows of the one-row tables handed to the transformer
TableRows ==
    { AppRow(<<"M", "A", "I", "N">>, school, degree, program, tag, employer, <<>>, noodle, special) :
        school \in { <<>>, NaN, <<"c", "p", "e">>, <<"S", "E", "S">> }, degree \in { <<"M", "a", "s", "t", "e", "r", "s">>, <<"D", "u", "a", "l", " ", "D", "e", "g", "r", "e", "e">> },
        program \in { <<>>, <<"M", "E", "A", "D", "S", " ", "O", "n", "l", "i", "n", "e">> },
        tag \in { <<>>, <<"E", "D", "D", " ", "N", "o", "o", "d", "l", "e">>, <<"N", "o", "o", "d", "l", "e">>, <<"B", "e", "a", "c", "o", "n", " ", "C", "o", "r", "p", "o", "r", "a", "t", "e">>, <<"O", "t", "h", "e", "r">> },
        employer \in { <<>>, <<"P", "f", "i", "z", "e", "r">> }, noodle \in { <<>>, <<"E", "x", "c", "l", "u", "d", "e">> },
        special \in { <<>>, <<"V", "e", "t">> } }

\* rows with numbers and float64 gaps in their fields, and rows without the
\* optional columns
NumericRows ==
    LET full == { AppRow(<<"M", "A", "I", "N">>, school, degree, program, tag, employer, sponsor, noodle, special) :
                    school \in { <<"S", "E", "S">>, <<"0.0">> }, degree \in { <<"M", "a", "s", "t", "e", "r", "s">>, <<"1.0">> },
                    program \in { <<>>, FloatNaN },
                    tag \in { <<>>, <<"O", "t", "h", "e", "r">>, <<"C", "o", "r", "p", "o", "r", "a", "t", "e">>, <<"1.0">> },
                    employer \in { <<>>, <<"P", "f", "i", "z", "e", "r">>, FloatNaN, <<"1.0">> },
                    sponsor \in { <<>>, FloatNaN },
                    noodle \in { <<>>, FloatNaN },
                    special \in { <<>>, <<"V", "e", "t">>, FloatNaN, <<"0.0">> } }
    IN  full \cup { [c \in {COL.school, COL.tags} |-> row[c]] : row \in full }

ClassifyIdle ==
    /\ app_row = NoRow
    /\ app_category = Unset
    /\ react_category = Unset
    /\ app_out = NoneDataFrame
    /\ school_in = <<>>
    /\ school_out = NoSchool

EnrollIdle ==
    /\ enroll_df = NoneDataFrame
    /\ enroll_out = NoneDataFrame
    /\ enroll_warned = FALSE

FunnelIdle ==
    /\ raw_df = NoneDataFrame
    /\ applications = NoApplications
    /\ summary = Unset
    /\ rates = Unset

NoClass == [ student_type |-> <<>>, ntr |-> <<>>, react |-> <<>>, loader |-> <<>> ]

CensusIdle ==
    /\ census_row = NoRow
    /\ census_class = NoClass
    /\ census_file = NoneDataFrame
    /\ ntr_out = NoNTR
    /\ census_out = NoCensusData
    /\ react_out = Unset
    /\ census_prev = Unset

TransformIdle ==
    /\ tf_raw = NoneDataFrame
    /\ tf_source = <<>>
    /\ tf_df = NoneDataFrame
    /\ tf_out1 = NoneDataFrame
    /\ tf_out2 = NoneDataFrame
    /\ tf_metrics = Unset

EmptyCaches == [ all |-> {}, slate |-> {}, apps |-> {}, census |-> {}, bytes |-> {} ]

NoCall ==
    [ called |-> FALSE, called_at |-> 0, called_gen |-> 0, census_bytes |-> <<>>, apps_bytes |-> <<>>,
      value |-> [ applications |-> [ at |-> 0, gen |-> 0 ], census |-> [ at |-> 0, gen |-> 0 ],
                  last_refresh |-> 0 ] ]

CacheIdle ==
    /\ now = 0
    /\ generation = 0
    /\ cache = EmptyCaches
    /\ local_file = FALSE
    /\ served = NoCall

NoSession == [ has_authenticated |-> FALSE, authenticated |-> FALSE ]

NoRun ==
    [ password |-> <<>>, login_button |-> FALSE, authenticated_before |-> FALSE, granted |-> FALSE,
      loaded |-> FALSE, authenticated_at_load |-> FALSE, logged_out |-> FALSE ]

AuthIdle ==
    /\ secret = <<>>
    /\ session_state = NoSession
    /\ screen = "none"
    /\ rerun_pending = FALSE
    /\ last_run = NoRun
    /\ runs = 0

InitClassify ==
    /\ CacheIdle
    /\ AuthIdle
    /\ EnrollIdle
    /\ FunnelIdle
    /\ CensusIdle
    /\ TransformIdle
    /\ \/ /\ pc = "row"
          /\ app_row \in AppRows
          /\ app_category = Unset
          /\ react_category = Unset
          /\ app_out = NoneDataFrame
          /\ school_in = <<>>
          /\ school_out = NoSchool
       \/ /\ pc = "table"
          /\ app_row \in TableRows
          /\ app_category = Unset
          /\ react_category = Unset
          /\ app_out = NoneDataFrame
          /\ school_in = <<>>
          /\ school_out = NoSchool
       \/ /\ pc = "numeric"
          /\ app_row \in NumericRows
          /\ app_category = Unset
          /\ react_category = Unset
          /\ app_out = NoneDataFrame
          /\ school_in = <<>>
          /\ school_out = NoSchool
       \/ /\ pc = "school"
          /\ app_row = NoRow
          /\ app_category = Unset
          /\ react_category = Unset
          /\ app_out = NoneDataFrame
          /\ school_in \in SchoolInputs
          /\ school_out = NoSchool

CallReclassify ==
    /\ pc = "row"
    /\ app_category' = reclassify_app_tags(app_row)
    /\ react_category' = react_reclassify_app_tags(app_row)
    /\ pc' = "classified"
    /\ UNCHANGED <<app_row, app_out, school_in, school_out, enroll_vars, funnel_vars, census_vars,
                   transform_vars,
                   cache_vars, auth_vars>>

\* transform_application_data on the table holding app_row alone
CallTransform ==
    /\ pc = "table"
    /\ \E source \in { <<"M", "A", "I", "N">>, <<"a", "s", "a", "p">> }, decision \in { <<>>, <<"-", "A", "S", "A", "P", " ", "A", "p", "p", "r", "o", "v", "e", "d">> } :
          app_out' = transform_application_data(
                         DataFrame(DOMAIN app_row \cup {COL.decision},
                                   <<set_col(app_row, COL.decision, decision)>>),
                         source)
    /\ pc' = "transformed"
    /\ UNCHANGED <<app_row, app_category, react_category, school_in, school_out, enroll_vars, funnel_vars, census_vars,
                   transform_vars,
                   cache_vars, auth_vars>>

CallStandardizeSchool ==
    /\ pc = "school"
    /\ school_out' = [ loader |-> standardize_school_name(school_in),
                       react  |-> react_standardize_school_name(school_in) ]
    /\ pc' = "standardized"
    /\ UNCHANGED <<app_row, app_category, react_category, app_out, school_in, enroll_vars, funnel_vars, census_vars,
                   transform_vars,
                   cache_vars, auth_vars>>

\* reclassify_app_tags on a row as read, and transform_application_data on the table
\* holding the row alone
CallOnNumericRow ==
    /\ pc = "numeric"
    /\ app_category' = reclassify_app_tags(app_row)
    /\ app_out' = transform_application_data(DataFrame(DOMAIN app_row, <<app_row>>), <<"M", "A", "I", "N">>)
    /\ pc' = "numeric_done"
    /\ UNCHANGED <<app_row, react_category, school_in, school_out, enroll_vars, funnel_vars,
                   census_vars, transform_vars, cache_vars, auth_vars>>

NextClassify == CallReclassify \/ CallTransform \/ CallStandardizeSchool \/ CallOnNumericRow

SpecClassify == InitClassify /\ [][NextClassify]_vars

-----------------------------------------------------------------------------
(* Properties of the classifier and the school standardizer (SpecClassify) *)

CAT_ASAP      == <<"A", "S", "A", "P">>
CAT_CPE       == <<"C", "P", "E">>
CAT_RETAIL    == <<"S", "t", "e", "v", "e", "n", "s", " ", "O", "n", "l", "i", "n", "e", " ", "(", "R", "e", "t", "a", "i", "l", ")">>
CAT_SPECIAL   == <<"S", "p", "e", "c", "i", "a", "l", " ", "P", "r", "o", "g", "r", "a", "m">>
CAT_SPO       == <<"S", "e", "l", "e", "c", "t", " ", "P", "r", "o", "f", "e", "s", "s", "i", "o", "n", "a", "l", " ", "O", "n", "l", "i", "n", "e">>
CAT_BEACON    == <<"B", "e", "a", "c", "o", "n">>
CAT_CORPORATE == <<"S", "t", "e", "v", "e", "n", "s", " ", "O", "n", "l", "i", "n", "e", " ", "(", "C", "o", "r", "p", "o", "r", "a", "t", "e", ")">>

Categories ==
    { CAT_ASAP, CAT_CPE, CAT_RETAIL, CAT_SPECIAL, CAT_SPO, CAT_BEACON, CAT_CORPORATE }

\* a cell that is missing or holds the empty text
EmptyCell(c) == c = <<>> \/ c = NaN

\* a cell that is missing, empty or holds whitespace only
BlankCell(c) == EmptyCell(c) \/ str_strip(c) = <<>>

\* the text of a cell, a missing cell reading as ''
CellText(c) == IF c = NaN THEN <<>> ELSE c

Primary(row) == row[COL.data_source] /= <<"A", "S", "A", "P">>

\* rules 2 and 3 of the cascade: the school holds the CPE marker, or the program is a CPE program
SchoolOrProgramIsCPE(row) ==
    \/ str_contains(<<"C", "P", "E">>, str_upper(CellText(row[COL.school])))
    \/ is_cpe_program(CellText(row[COL.program]))

DegreeIsDual(row) == str_strip(CellText(row[COL.degree])) = <<"D", "u", "a", "l", " ", "D", "e", "g", "r", "e", "e">>

\* a Primary row that none of rules 1-4 matched
ReachesRule5(row) ==
    /\ Primary(row)
    /\ ~SchoolOrProgramIsCPE(row)
    /\ ~(BlankCell(row[COL.school]) /\ ~DegreeIsDual(row))

TagHas(row, marker) == str_contains(marker, CellText(row[COL.tags]))

\* a Primary row that none of rules 1-6 matched
ReachesRule7(row) ==
    /\ ReachesRule5(row)
    /\ ~EmptyCell(row[COL.tags])
    /\ ~TagHas(row, <<"E", "D", "D">>)
    /\ BlankCell(row[COL.special])

\* C1: classification totality -- the classifier's result is exactly one value of the
\* fixed set of seven categories, never empty, and every row of the transformer's
\* output carries such a value in 'Application Category'.
C1_ClassificationTotal ==
    /\ pc = "classified" => app_category \in Categories
    /\ pc = "transformed" =>
          /\ COL.category \in app_out.columns
          /\ \A i \in 1..Len(app_out.rows) :
                /\ COL.category \in DOMAIN app_out.rows[i]
                /\ app_out.rows[i][COL.category] \in Categories

\* a MAIN row whose tag and fields match no rule, transformed and falling to the default
C1_Witness ==
    /\ pc = "transformed"
    /\ Len(app_out.rows) = 1
    /\ app_out.rows[1][COL.data_source] = <<"M", "A", "I", "N">>
    /\ app_out.rows[1][COL.tags] = <<"O", "t", "h", "e", "r">>
    /\ app_out.rows[1][COL.employer] = <<>>
    /\ app_out.rows[1][COL.special] = <<>>
    /\ app_out.rows[1][COL.category] = CAT_RETAIL

C3_AsStated ==
    (pc = "classified" /\ Primary(app_row) /\ BlankCell(app_row[COL.school])
        /\ CellText(app_row[COL.degree]) /= <<"D", "u", "a", "l", " ", "D", "e", "g", "r", "e", "e">>)
    => app_category = CAT_CPE

\* C3 amended: a Primary row with a blank school whose Degree of Interest, trimmed of
\* surrounding whitespace, is not 'Dual Degree' is CPE whatever its other fields, although
\* the school standardizer maps the same blank school to 'Dual Degree'; when the trimmed
\* degree interest is 'Dual Degree' the blank-school rule does not fire and the row gets
\* a category of rules 5-10 (unless its program is a CPE program).
C3_BlankSchoolDefault ==
    /\ (pc = "classified" /\ Primary(app_row) /\ BlankCell(app_row[COL.school]))
       => IF ~DegreeIsDual(app_row) THEN app_category = CAT_CPE
          ELSE SchoolOrProgramIsCPE(app_row)
               \/ app_category \in Categories \ {CAT_ASAP, CAT_CPE}
    /\ pc = "transformed" =>
          \A i \in 1..Len(app_out.rows) :
             LET r == app_out.rows[i]
             IN  (Primary(r) /\ BlankCell(app_row[COL.school]) /\ ~DegreeIsDual(r))
                 => /\ r[COL.category] = CAT_CPE
                    /\ r[COL.school_expanded] = <<"D", "u", "a", "l", " ", "D", "e", "g", "r", "e", "e">>

\* a transformed Masters row with an empty school: CPE, standardized school 'Dual Degree'
C3_Witness ==
    /\ pc = "transformed"
    /\ Len(app_out.rows) = 1
    /\ app_out.rows[1][COL.data_source] = <<"M", "A", "I", "N">>
    /\ app_row[COL.school] = <<>>
    /\ app_row[COL.degree] = <<"M", "a", "s", "t", "e", "r", "s">>
    /\ app_row[COL.tags] = <<"N", "o", "o", "d", "l", "e">>
    /\ app_out.rows[1][COL.category] = CAT_CPE
    /\ app_out.rows[1][COL.school_expanded] = <<"D", "u", "a", "l", " ", "D", "e", "g", "r", "e", "e">>

\* the later rules 8-10 for a row that the partner-channel rule let pass; a sponsoring
\* employer field counts as non-blank when it holds more than whitespace
LaterRules(row) ==
    IF TagHas(row, <<"B", "e", "a", "c", "o", "n">>) THEN CAT_BEACON
    ELSE IF \/ TagHas(row, <<"C", "o", "r", "p", "o", "r", "a", "t", "e">>)
            \/ ~BlankCell(row[COL.employer])
            \/ ~BlankCell(row[COL.sponsor])
         THEN CAT_CORPORATE
    ELSE CAT_RETAIL

\* C4 as stated: a row reaching rule 7 is Select Professional Online iff its tag
\* contains 'Noodle' and its Noodle Exception is blank or does not contain 'exclude'.
C4_AsStated ==
    (pc = "classified" /\ ReachesRule7(app_row))
    => (app_category = CAT_SPO
        <=> /\ TagHas(app_row, <<"N", "o", "o", "d", "l", "e">>)
            /\ \/ EmptyCell(app_row[COL.noodle])
               \/ ~str_contains(<<"e", "x", "c", "l", "u", "d", "e">>, CellText(app_row[COL.noodle])))

\* C4 amended: a row reaching rule 7 is Select Professional Online iff its tag contains
\* 'Noodle' and its Noodle Exception is blank or does not contain 'exclude' in any letter
\* case; a 'Noodle' row with such an exclusion flag gets the result of the later rules:
\* Beacon, else Corporate (marker in the tag, or a sponsoring-employer field that is
\* non-blank after trimming), else Retail.
C4_PartnerChannelExclusion ==
    (pc = "classified" /\ ReachesRule7(app_row))
    => LET excluded == str_contains(<<"e", "x", "c", "l", "u", "d", "e">>, str_lower(CellText(app_row[COL.noodle])))
       IN  /\ app_category = CAT_SPO <=> (TagHas(app_row, <<"N", "o", "o", "d", "l", "e">>) /\ ~excluded)
           /\ (TagHas(app_row, <<"N", "o", "o", "d", "l", "e">>) /\ excluded)
              => app_category = LaterRules(app_row)

\* a 'Noodle Beacon' tag with the exclusion flag 'Exclude': Beacon, not partner channel
C4_Witness ==
    /\ pc = "classified"
    /\ ReachesRule7(app_row)
    /\ app_row[COL.tags] = <<"N", "o", "o", "d", "l", "e", " ", "B", "e", "a", "c", "o", "n">>
    /\ app_row[COL.noodle] = <<"E", "x", "c", "l", "u", "d", "e">>
    /\ app_category = CAT_BEACON

\* C5 as stated: any value containing 'CPE' standardizes to CPE, the test being made
\* before the dual-degree / empty test.
C5_AsStated ==
    (pc = "standardized" /\ str_contains(<<"C", "P", "E">>, str_upper(CellText(school_in))))
    => (school_out.loader = <<"C", "P", "E">> /\ school_out.react = <<"C", "P", "E">>)

\* C5 amended: the dual-degree / empty test is made BEFORE the continuing-education test:
\* a value containing 'DUAL' (in any letter case) standardizes to 'Dual Degree' even when
\* it also contains 'CPE', and a value containing 'CPE' but not 'DUAL' standardizes to CPE.
C5_SchoolPrecedence ==
    pc = "standardized" =>
        LET name == str_upper(CellText(school_in))
        IN  /\ str_contains(<<"D", "U", "A", "L">>, name)
               => (school_out.loader = <<"D", "u", "a", "l", " ", "D", "e", "g", "r", "e", "e">> /\ school_out.react = <<"D", "u", "a", "l", " ", "D", "e", "g", "r", "e", "e">>)
            /\ (str_contains(<<"C", "P", "E">>, name) /\ ~str_contains(<<"D", "U", "A", "L">>, name))
               => (school_out.loader = <<"C", "P", "E">> /\ school_out.react = <<"C", "P", "E">>)

\* a value holding both markers has been standardized to 'Dual Degree'
C5_Witness ==
    /\ pc = "standardized"
    /\ school_in = <<"C", "P", "E", " ", "D", "u", "a", "l", " ", "D", "e", "g", "r", "e", "e">>
    /\ school_out.loader = <<"D", "u", "a", "l", " ", "D", "e", "g", "r", "e", "e">>
    /\ school_out.react = <<"D", "u", "a", "l", " ", "D", "e", "g", "r", "e", "e">>

CanonicalSchools == { <<"S", "S", "B">>, <<"S", "E", "S">>, <<"C", "P", "E">>, <<"D", "u", "a", "l", " ", "D", "e", "g", "r", "e", "e">> }

\* C6: the school standardizer's result is always one of the four canonical schools, an
\* unmapped or empty value falling back to 'Dual Degree'.
C6_SchoolRange ==
    pc = "standardized" => school_out.loader \in CanonicalSchools

-----------------------------------------------------------------------------
(* The enrollment-status deriver on tables of at most MaxEnrollRows rows *)

MaxEnrollRows == 2

\* the tables over the column Round and the given date and term columns (a set of
\* at most one name each)
EnrollTables(date_cols, term_cols) ==
    LET cols == {COL.round} \cup date_cols \cup term_cols
        RowSet ==
            { [c \in cols |-> IF c \in date_cols THEN d
                               ELSE IF c \in term_cols THEN t
                               ELSE <<"2", "0", "2", "6", " ", "S", "p", "r", "i", "n", "g", " ", "G", "r", "a", "d", "u", "a", "t", "e">>] :
                d \in (IF date_cols = {} THEN {NaN}
                       ELSE { NaN, <<>>, <<" ">>, <<"T", "B", "D">>, <<"2", "0", "2", "5", "-", "0", "1", "-", "1", "5">>, <<"2", "0", "2", "3", "-", "0", "8", "-", "3", "0">> }),
                t \in (IF term_cols = {} THEN {NaN}
                       ELSE { NaN, <<"2", "0", "2", "6", " ", "S", "p", "r", "i", "n", "g">>, <<"F", "a", "l", "l", " ", "2", "0", "2", "3">> }) }
    IN  { DataFrame(cols, rows) :
            rows \in UNION { [1..n -> RowSet] : n \in 0..MaxEnrollRows } }

InitEnroll ==
    /\ CacheIdle
    /\ AuthIdle
    /\ ClassifyIdle
    /\ FunnelIdle
    /\ CensusIdle
    /\ TransformIdle
    /\ pc = "enroll"
    /\ \E date_cols \in { {}, { <<"D", "a", "t", "e", " ", "o", "f", " ", "E", "n", "r", "o", "l", "l", "m", "e", "n", "t">> }, { <<"D", "A", "T", "E", " ", "O", "F", " ", "E", "N", "R", "O", "L", "L", "M", "E", "N", "T">> } },
          term_cols \in { {}, { <<"T", "e", "r", "m", " ", "o", "f", " ", "E", "n", "r", "o", "l", "l", "m", "e", "n", "t">> }, { <<"t", "e", "r", "m", " ", "o", "f", " ", "e", "n", "r", "o", "l", "l", "m", "e", "n", "t">> } } :
          enroll_df \in EnrollTables(date_cols, term_cols)
    /\ enroll_out = NoneDataFrame
    /\ enroll_warned = FALSE

CallDeriveYoyStatus ==
    /\ pc = "enroll"
    /\ LET result == derive_yoy_status_from_enrollment_date(enroll_df)
       IN  /\ enroll_out' = result.df
           /\ enroll_warned' = result.warned
    /\ pc' = "derived"
    /\ UNCHANGED <<enroll_df, classify_vars, funnel_vars, census_vars,
                   transform_vars,
                   cache_vars, auth_vars>>

NextEnroll == CallDeriveYoyStatus

SpecEnroll == InitEnroll /\ [][NextEnroll]_vars

-----------------------------------------------------------------------------
(* The funnel: a feed of at most MaxFeedRows rows is loaded, summarized, and the
   rates of the summary are read *)

MaxFeedRows == 2

\* the rows of a feed. A MAIN row is denied (school SES), admitted by its bin (CPE),
\* matriculated and enrolled (SES) or denied yet enrolled (CPE), and its Round names
\* one year, or two for one matriculated row; an ASAP row has an empty or an
\* approved decision
FeedRows(has_school) ==
    LET cols == {COL.round, COL.bin, COL.decision, COL.date_of_enrollment}
                    \cup (IF has_school THEN {COL.school} ELSE {})
        FeedRow(round, outcome) ==
            [c \in cols |-> IF c = COL.round THEN round
                            ELSE IF c = COL.bin THEN outcome[1]
                            ELSE IF c = COL.decision THEN outcome[2]
                            ELSE IF c = COL.date_of_enrollment THEN outcome[3]
                            ELSE outcome[4]]
    IN  { FeedRow(round, outcome) :
            round \in { <<"2", "0", "2", "4", " ", "F", "a", "l", "l", " ", "G", "r", "a", "d", "u", "a", "t", "e">>, <<"2", "0", "2", "5", " ", "F", "a", "l", "l", " ", "G", "r", "a", "d", "u", "a", "t", "e">>, <<"2", "0", "2", "6", " ", "S", "p", "r", "i", "n", "g", " ", "G", "r", "a", "d", "u", "a", "t", "e">> },
            outcome \in { <<<<>>, <<"D", "e", "n", "y">>, <<>>, <<"S", "E", "S">>>>, <<<<"A", "d", "m", "i", "t">>, <<>>, <<>>, <<"C", "P", "E">>>>,
                          <<<<>>, <<"A", "d", "m", "i", "t", "/", "M", "a", "t", "r", "i", "c">>, <<"2", "0", "2", "5", "-", "0", "1", "-", "1", "5">>, <<"S", "E", "S">>>>,
                          <<<<>>, <<"D", "e", "n", "y">>, <<"2", "0", "2", "5", "-", "0", "1", "-", "1", "5">>, <<"C", "P", "E">>>> } }
        \cup
        { FeedRow(<<"2", "0", "2", "5", "/", "2", "0", "2", "6", " ", "F", "a", "l", "l", " ", "G", "r", "a", "d", "u", "a", "t", "e">>, <<<<>>, <<"A", "d", "m", "i", "t", "/", "M", "a", "t", "r", "i", "c">>, <<"2", "0", "2", "5", "-", "0", "1", "-", "1", "5">>, <<"S", "E", "S">>>>) }
        \cup
        { FeedRow(<<"A", "S", "A", "P">>, <<<<>>, decision, <<>>, <<>>>>) :
            decision \in { <<>>, <<"-", "A", "S", "A", "P", " ", "A", "p", "p", "r", "o", "v", "e", "d">> } }

Feeds ==
    {NoneDataFrame} \cup
    UNION { { DataFrame(DOMAIN rows[1], rows) :
                rows \in UNION { [1..n -> FeedRows(has_school)] : n \in 1..MaxFeedRows } } :
            has_school \in BOOLEAN }

\* tables handed to the analytics functions as they are: a missing table, an empty
\* one, one without the transformed columns, and two transformed ones (school
\* SES and, the feed having no school column, '')
DirectTables ==
    { NoneDataFrame, EmptyDataFrame,
      DataFrame({COL.round}, <<[c \in {COL.round} |-> <<"2", "0", "2", "5", " ", "F", "a", "l", "l", " ", "G", "r", "a", "d", "u", "a", "t", "e">>]>>) }
    \cup
    { transform_application_data(DataFrame(DOMAIN row, <<row>>), <<"M", "A", "I", "N">>) :
        row \in { r \in FeedRows(TRUE) \cup FeedRows(FALSE) :
                    /\ r[COL.round] = <<"2", "0", "2", "5", " ", "F", "a", "l", "l", " ", "G", "r", "a", "d", "u", "a", "t", "e">>
                    /\ r[COL.decision] = <<"A", "d", "m", "i", "t", "/", "M", "a", "t", "r", "i", "c">> } }

InitFunnel ==
    /\ CacheIdle
    /\ AuthIdle
    /\ ClassifyIdle
    /\ EnrollIdle
    /\ CensusIdle
    /\ TransformIdle
    /\ summary = Unset
    /\ rates = Unset
    /\ \/ /\ pc = "feed"
          /\ raw_df \in Feeds
          /\ applications = NoApplications
       \/ /\ pc = "loaded"
          /\ raw_df = NoneDataFrame
          /\ applications \in [ {"current", "previous", "two_years_ago"} -> DirectTables ]

LoadApplications ==
    /\ pc = "feed"
    /\ applications' = load_applications_data(raw_df)
    /\ pc' = "loaded"
    /\ UNCHANGED <<raw_df, summary, rates, classify_vars, enroll_vars, census_vars,
                   transform_vars,
                   cache_vars, auth_vars>>

\* calculate_summary_stats with the census data load_all_data holds: none, or counts
\* by student status
CallSummaryStats ==
    /\ pc = "loaded"
    /\ \E census_enrollments \in
              { NoCensusData } \cup
              { [NoCensusData EXCEPT !.isnone = FALSE, !.total = new + 3, !.new = new,
                                     !.continuing = 2, !.returning = 1] : new \in {1, 5} } :
          /\ census_out' = census_enrollments
          /\ summary' = calculate_summary_stats(applications.current, applications.previous,
                                                applications.two_years_ago, census_enrollments)
    /\ pc' = "summarized"
    /\ UNCHANGED <<raw_df, applications, rates, classify_vars, enroll_vars,
                   census_row, census_class, census_file, ntr_out, react_out, census_prev,
                   transform_vars,
                   cache_vars, auth_vars>>

ReadRates ==
    /\ pc = "summarized"
    /\ rates' =
          [ overall |->
              [ year \in DOMAIN summary.overall |->
                  [ admit_rate         |-> admit_rate(summary.overall[year]),
                    offer_rate         |-> offer_rate(summary.overall[year]),
                    yield_rate         |-> yield_rate(summary.overall[year]),
                    overall_conversion |-> overall_conversion(summary.overall[year]) ] ],
            yoy |->
              [ cmp \in DOMAIN summary.yoy |->
                  [ apps_change        |-> apps_change(summary.yoy[cmp]),
                    admits_change      |-> admits_change(summary.yoy[cmp]),
                    enrollments_change |-> enrollments_change(summary.yoy[cmp]) ] ],
            enrollment_total |-> EnrollmentBreakdown_total(summary.enrollment_breakdown) ]
    /\ pc' = "rated"
    /\ UNCHANGED <<raw_df, applications, summary, classify_vars, enroll_vars, census_vars,
                   transform_vars,
                   cache_vars, auth_vars>>

NextFunnel == LoadApplications \/ CallSummaryStats \/ ReadRates

SpecFunnel == InitFunnel /\ [][NextFunnel]_vars

-----------------------------------------------------------------------------
(* The census scenarios: one row is classified; a census table of at most
   MaxCensusRows rows is loaded and its NTR calculated, and then loaded and
   calculated again with one of its rows repeated *)

MaxCensusRows == 2

CensusRow(student_id, status, prev_summer, degree_type, location, corporate, cohort,
          beacon_flag, program, school, credits, semester) ==
    (CEN.student_id :> student_id) @@ (CEN.status :> status)
    @@ (CEN.prev_summer :> prev_summer) @@ (CEN.degree_type :> degree_type)
    @@ (CEN.location :> location) @@ (CEN.corporate :> corporate)
    @@ (CEN.cohort :> cohort) @@ (CEN.beacon_flag :> beacon_flag)
    @@ (CEN.program :> program) @@ (CEN.school :> school)
    @@ (CEN.census3_credits :> credits) @@ (CEN.semester :> semester)

\* rows as calculate_ntr_from_census hands them to the classifiers, the flags
\* numeric; the row without the previous-summer column is among them
ClassifierRows ==
    LET rows ==
            { CensusRow(<<"A">>, status, prev_summer, degree_type, location, corporate,
                        cohort, beacon_flag, program, school, 3, <<"2", "0", "2", "6", "S">>) :
                status \in { <<"N", "e", "w">>, <<"C", "o", "n", "t", "i", "n", "u", "i", "n", "g">>, <<"R", "e", "t", "u", "r", "n", "i", "n", "g">>, <<"G", "r", "a", "d", "u", "a", "t", "e", "d">>, <<>>, NaN },
                prev_summer \in {0, 1, 2},
                degree_type \in { <<"M", "a", "s", "t", "e", "r", "s">>, <<"N", "o", "n", "-", "D", "e", "g", "r", "e", "e">> },
                location \in { <<"O", "n", "l", "i", "n", "e">>, <<"O", "n", "l", "i", "n", "e", " ", "N", "o", "o", "d", "l", "e">>, <<"O", "n", " ", "C", "a", "m", "p", "u", "s">> },
                corporate \in { <<"C", "o", "r", "p", "o", "r", "a", "t", "e">>, <<"N", "o", "n", "-", "C", "o", "r", "p", "o", "r", "a", "t", "e">>, <<>>, NaN },
                cohort \in { <<"A", "c", "m", "e">>, <<"N", "o", "t", " ", "r", "e", "p", "o", "r", "t", "e", "d">>, <<>>, NaN },
                beacon_flag \in {0, 1, 2},
                program \in { <<>>, <<"M", "E", "A", "D", "S">> },
                school \in { <<>>, <<"C", "P", "E">> } }
    IN  rows \cup { [c \in DOMAIN row \ {CEN.prev_summer} |-> row[c]] :
                      row \in { r \in rows : r[CEN.prev_summer] = 0 } }

\* the rows of a census file, their flags and credits text: a retail and a
\* corporate student, a beacon certificate student (no rate), a student of
\* unknown status, an online student without a corporate flag, a doctoral
\* student, an on-campus CPE student, an on-campus student of no CPE program, and a
\* student of another semester
CensusFileRows ==
    { CensusRow(id, <<"N", "e", "w">>, <<"0">>, <<"M", "a", "s", "t", "e", "r", "s">>, <<"O", "n", "l", "i", "n", "e">>, <<"N", "o", "n", "-", "C", "o", "r", "p", "o", "r", "a", "t", "e">>, <<>>, <<"0">>,
                <<>>, <<>>, <<"3">>, <<"2", "0", "2", "6", "S">>) : id \in { <<"A">>, <<"B">> } }
    \cup
    { CensusRow(id, <<"C", "o", "n", "t", "i", "n", "u", "i", "n", "g">>, <<"0">>, <<"M", "a", "s", "t", "e", "r", "s">>, <<"O", "n", "l", "i", "n", "e">>, <<"C", "o", "r", "p", "o", "r", "a", "t", "e">>, <<"A", "c", "m", "e">>,
                <<"0">>, <<>>, <<>>, <<"6">>, <<"2", "0", "2", "6", "S">>) : id \in { <<"A">>, <<"B">> } }
    \cup
    { CensusRow(<<"C">>, <<"N", "e", "w">>, <<"1">>, <<"G", "r", "a", "d", "u", "a", "t", "e", " ", "C", "e", "r", "t", "i", "f", "i", "c", "a", "t", "e">>, <<"O", "n", "l", "i", "n", "e">>, <<"C", "o", "r", "p", "o", "r", "a", "t", "e">>,
                <<"N", "o", "t", " ", "r", "e", "p", "o", "r", "t", "e", "d">>, <<"1">>, <<>>, <<>>, <<"3">>, <<"2", "0", "2", "6", "S">>),
      CensusRow(<<"D">>, <<"G", "r", "a", "d", "u", "a", "t", "e", "d">>, <<"0">>, <<"M", "a", "s", "t", "e", "r", "s">>, <<"O", "n", "l", "i", "n", "e", " ", "N", "o", "o", "d", "l", "e">>, NaN, NaN, NaN,
                <<>>, <<>>, <<"3">>, <<"2", "0", "2", "6", "S">>),
      CensusRow(<<"E">>, <<"N", "e", "w">>, <<"0">>, <<"M", "a", "s", "t", "e", "r", "s">>, <<"O", "n", "l", "i", "n", "e">>, <<>>, <<>>, <<"0">>,
                <<>>, <<>>, <<"3">>, <<"2", "0", "2", "6", "S">>),
      CensusRow(<<"F">>, <<"R", "e", "t", "u", "r", "n", "i", "n", "g">>, <<"0">>, <<"D", "o", "c", "t", "o", "r", "a", "l">>, <<"O", "n", "l", "i", "n", "e">>, <<"N", "o", "n", "-", "C", "o", "r", "p", "o", "r", "a", "t", "e">>, <<>>,
                <<"0">>, <<>>, <<>>, <<"6">>, <<"2", "0", "2", "6", "S">>),
      CensusRow(<<"G">>, <<"N", "e", "w">>, <<"0">>, <<"M", "a", "s", "t", "e", "r", "s">>, <<"O", "n", " ", "C", "a", "m", "p", "u", "s">>, <<>>, <<>>, <<"0">>,
                <<"M", "E", "A", "D", "S">>, <<>>, <<"N", "/", "A">>, <<"2", "0", "2", "6", "S">>),
      CensusRow(<<"H">>, <<"C", "o", "n", "t", "i", "n", "u", "i", "n", "g">>, <<"0">>, <<"M", "a", "s", "t", "e", "r", "s">>, <<"O", "n", " ", "C", "a", "m", "p", "u", "s">>, <<"N", "o", "n", "-", "C", "o", "r", "p", "o", "r", "a", "t", "e">>,
                <<>>, <<"0">>, <<>>, <<>>, <<"6">>, <<"2", "0", "2", "6", "S">>),
      CensusRow(<<"A">>, <<"N", "e", "w">>, <<"0">>, <<"M", "a", "s", "t", "e", "r", "s">>, <<"O", "n", "l", "i", "n", "e">>, <<"N", "o", "n", "-", "C", "o", "r", "p", "o", "r", "a", "t", "e">>, <<>>, <<"0">>,
                <<>>, <<>>, <<"3">>, <<"2", "0", "2", "5", "F">>) }

CensusFiles ==
    { NoneDataFrame } \cup
    { DataFrame(DOMAIN rows[1], rows) :
        rows \in UNION { [1..n -> CensusFileRows] : n \in 1..MaxCensusRows } }

InitCensus ==
    /\ CacheIdle
    /\ AuthIdle
    /\ ClassifyIdle
    /\ EnrollIdle
    /\ FunnelIdle
    /\ TransformIdle
    /\ census_class = NoClass
    /\ ntr_out = NoNTR
    /\ census_out = NoCensusData
    /\ react_out = Unset
    /\ census_prev = Unset
    /\ \/ /\ pc = "census_row"
          /\ census_row \in ClassifierRows
          /\ census_file = NoneDataFrame
       \/ /\ pc = "census"
          /\ census_row = NoRow
          /\ census_file \in CensusFiles

\* the classifiers on one row
ClassifyCensusRow ==
    /\ pc = "census_row"
    /\ census_class' = [ student_type |-> classify_student_type(census_row),
                         ntr          |-> classify_student_category(census_row),
                         react        |-> categorize_census_row(census_row),
                         loader       |-> _categorize_census_row(census_row) ]
    /\ pc' = "classified_census"
    /\ UNCHANGED <<census_row, census_file, ntr_out, census_out, react_out, census_prev,
                   classify_vars, enroll_vars, funnel_vars,
                   transform_vars,
                   cache_vars, auth_vars>>

\* the file with its row i repeated at the end
WithRepeatedRow(df, i) == DataFrame(df.columns, Append(df.rows, df.rows[i]))

\* the NTR tracker: calculate_ntr_from_census(census_file)
CallNtrFromCensus ==
    /\ pc = "census"
    /\ ntr_out' = calculate_ntr_from_census(census_file, DEFAULT_NTR_GOAL, <<"2", "0", "2", "6", "S">>)
    /\ pc' = "ntr"
    /\ UNCHANGED <<census_row, census_class, census_file, census_out, react_out, census_prev,
                   classify_vars, enroll_vars, funnel_vars,
                   transform_vars,
                   cache_vars, auth_vars>>

\* the same on the file with one row repeated
RepeatNtrFromCensus ==
    /\ pc = "ntr"
    /\ ~census_file.isnone
    /\ \E i \in 1..Len(census_file.rows) :
          /\ census_file' = WithRepeatedRow(census_file, i)
          /\ ntr_out' = calculate_ntr_from_census(WithRepeatedRow(census_file, i),
                                                  DEFAULT_NTR_GOAL, <<"2", "0", "2", "6", "S">>)
    /\ census_prev' = ntr_out
    /\ pc' = "ntr_repeated"
    /\ UNCHANGED <<census_row, census_class, census_out, react_out,
                   classify_vars, enroll_vars, funnel_vars,
                   transform_vars,
                   cache_vars, auth_vars>>

\* data_loader.load_census_data of the file
CallLoadCensus ==
    /\ pc = "census"
    /\ census_out' = load_census_data(census_file, <<"2", "0", "2", "6", "S">>)
    /\ pc' = "census_loaded"
    /\ UNCHANGED <<census_row, census_class, census_file, ntr_out, react_out, census_prev,
                   classify_vars, enroll_vars, funnel_vars,
                   transform_vars,
                   cache_vars, auth_vars>>

\* the same on the file with one row repeated
RepeatLoadCensus ==
    /\ pc = "census_loaded"
    /\ ~census_file.isnone
    /\ \E i \in 1..Len(census_file.rows) :
          /\ census_file' = WithRepeatedRow(census_file, i)
          /\ census_out' = load_census_data(WithRepeatedRow(census_file, i), <<"2", "0", "2", "6", "S">>)
    /\ census_prev' = census_out
    /\ pc' = "census_repeated"
    /\ UNCHANGED <<census_row, census_class, ntr_out, react_out,
                   classify_vars, enroll_vars, funnel_vars,
                   transform_vars,
                   cache_vars, auth_vars>>

\* process_data.py: calculate_ntr_metrics(load_census_data())
CallReactNtr ==
    /\ pc = "census"
    /\ react_out' = calculate_ntr_metrics(react_load_census_data(census_file, <<"2", "0", "2", "6", "S">>))
    /\ pc' = "react_ntr"
    /\ UNCHANGED <<census_row, census_class, census_file, ntr_out, census_out, census_prev,
                   classify_vars, enroll_vars, funnel_vars,
                   transform_vars,
                   cache_vars, auth_vars>>

NextCensus ==
    \/ ClassifyCensusRow
    \/ CallNtrFromCensus
    \/ RepeatNtrFromCensus
    \/ CallLoadCensus
    \/ RepeatLoadCensus
    \/ CallReactNtr

SpecCensus == InitCensus /\ [][NextCensus]_vars

-----------------------------------------------------------------------------
(* The transformer scenario: a raw table is transformed, its funnel measured, and
   the caller's table transformed a second time *)

MaxAsapRows == 5

MaxMainRows == 2

\* ASAP tables of at most MaxAsapRows rows: a row has no decision and is enrolled, a
\* decision that is a dash only, or an approved decision; and the one-row tables of
\* seven other decisions
AsapTables ==
    LET cols == {COL.round, COL.decision, COL.yoy}
        RowSet ==
            { [c \in cols |-> IF c = COL.round THEN <<"A", "S", "A", "P">>
                               ELSE IF c = COL.decision THEN kind[1] ELSE kind[2]] :
                kind \in { <<NaN, <<"y", "e", "s">>>>, <<<<" ", "-", " ">>, <<>>>>, <<<<"-", "A", "S", "A", "P", " ", "A", "p", "p", "r", "o", "v", "e", "d">>, <<"y", "e", "s">>>> } }
        OtherRows ==
            { [c \in cols |-> IF c = COL.round THEN <<"A", "S", "A", "P">>
                               ELSE IF c = COL.decision THEN kind[1] ELSE kind[2]] :
                kind \in { <<<<>>, <<>>>>, <<<<"-">>, <<"y", "e", "s">>>>, <<<<"-", "-">>, <<>>>>,
                           <<<<"-", " ", "P", "e", "n", "d", "i", "n", "g">>, <<"y", "e", "s">>>>, <<<<"-", "A", "S", "A", "P", " ", "A", "p", "p", "r", "o", "v", "e", "d", " ", "-", " ", "A", "c", "c", "e", "p", "t", "e", "d">>, <<"y", "e", "s">>>>,
                           <<<<"A", "S", "A", "P", "_", "A", "p", "p", "r", "o", "v", "e", "d", " ", "/", " ", "D", "e", "c", "l", "i", "n", "e", "d">>, <<>>>>, <<<<"A", "c", "c", "e", "p", "t", "e", "d">>, <<"y", "e", "s">>>> } }
    IN  { DataFrame(cols, rows) :
            rows \in UNION { [1..n -> RowSet] : n \in 1..MaxAsapRows } }
        \cup { DataFrame(cols, <<row>>) : row \in OtherRows }

\* MAIN tables of at most MaxMainRows rows, a missing table and an empty one; a row is
\* denied, admitted by its bin, matriculated and enrolled, denied yet enrolled, or
\* admitted and declining
MainTables ==
    LET cols == {COL.round, COL.bin, COL.decision, COL.yoy, COL.school}
        RowSet ==
            { [c \in cols |-> IF c = COL.round THEN <<"2", "0", "2", "6", " ", "F", "a", "l", "l", " ", "G", "r", "a", "d", "u", "a", "t", "e">>
                               ELSE IF c = COL.bin THEN kind[1]
                               ELSE IF c = COL.decision THEN kind[2]
                               ELSE IF c = COL.yoy THEN kind[3]
                               ELSE kind[4]] :
                kind \in { <<NaN, <<"D", "e", "n", "y">>, NaN, <<"S", "E", "S">>>>, <<<<"A", "d", "m", "i", "t">>, NaN, <<>>, NaN>>,
                           <<<<>>, <<"A", "d", "m", "i", "t", "/", "M", "a", "t", "r", "i", "c">>, <<"y", "e", "s">>, <<"c", "p", "e">>>>,
                           <<<<>>, <<"D", "e", "n", "y">>, <<"y", "e", "s">>, <<"S", "E", "S">>>>,
                           <<<<"H", "o", "l", "d">>, <<" ", "A", "d", "m", "i", "t", "/", "D", "e", "c", "l", "i", "n", "e", " ">>, <<>>, <<"S", "E", "S">>>> } }
    IN  { NoneDataFrame, EmptyDataFrame } \cup
        { DataFrame(cols, rows) :
            rows \in UNION { [1..n -> RowSet] : n \in 1..MaxMainRows } }

InitTransform ==
    /\ CacheIdle
    /\ AuthIdle
    /\ ClassifyIdle
    /\ EnrollIdle
    /\ FunnelIdle
    /\ CensusIdle
    /\ pc = "raw"
    /\ \/ tf_raw \in AsapTables /\ tf_source = <<"A", "S", "A", "P">>
       \/ tf_raw \in MainTables /\ tf_source \in { <<"M", "A", "I", "N">>, <<"a", "s", "a", "p">> }
    /\ tf_df = tf_raw
    /\ tf_out1 = NoneDataFrame
    /\ tf_out2 = NoneDataFrame
    /\ tf_metrics = Unset

\* transform_application_data(df, source), first call
TransformOnce ==
    /\ pc = "raw"
    /\ tf_out1' = transform_application_data(tf_df, tf_source)
    /\ tf_df' = caller_table_after_transform(tf_df, tf_source)
    /\ pc' = "tf_once"
    /\ UNCHANGED <<tf_raw, tf_source, tf_out2, tf_metrics,
                   classify_vars, enroll_vars, funnel_vars, census_vars,
                   cache_vars, auth_vars>>

\* calculate_funnel_metrics of the first result
MeasureTransformed ==
    /\ pc = "tf_once"
    /\ tf_metrics' = calculate_funnel_metrics(tf_out1, 2026)
    /\ pc' = "tf_measured"
    /\ UNCHANGED <<tf_raw, tf_source, tf_df, tf_out1, tf_out2,
                   classify_vars, enroll_vars, funnel_vars, census_vars,
                   cache_vars, auth_vars>>

\* transform_application_data(df, source) on the same table, second call
TransformAgain ==
    /\ pc \in {"tf_once", "tf_measured"}
    /\ tf_out2' = transform_application_data(tf_df, tf_source)
    /\ tf_df' = caller_table_after_transform(tf_df, tf_source)
    /\ pc' = "tf_twice"
    /\ UNCHANGED <<tf_raw, tf_source, tf_out1, tf_metrics,
                   classify_vars, enroll_vars, funnel_vars, census_vars,
                   cache_vars, auth_vars>>

NextTransform == TransformOnce \/ MeasureTransformed \/ TransformAgain

SpecTransform == InitTransform /\ [][NextTransform]_vars

-----------------------------------------------------------------------------
(* The cached loaders of data_loader.py.  st.cache_data keeps, per decorated
   function, one entry per argument tuple; an entry is served while it is
   younger than the function's ttl and is recomputed otherwise, and f.clear()
   drops every entry of f.  The clock counts hours.  A computed value is
   represented by its stamp: the time its source was read (at) and the number
   of force refreshes that had happened by then (gen); a value built from
   several sources carries the stamp of the one it took through a cache. *)

ttl == 3

Stamp(at, gen) == [ at |-> at, gen |-> gen ]

cache_get(store, key, t) ==
    { e \in store : e.key = key /\ t < e.stored_at + ttl }

cache_put(store, key, t, value) ==
    { e \in store : e.key # key } \cup { [ key |-> key, stored_at |-> t, value |-> value ] }

fetch_slate_data(c, t, gen) ==
    LET hit == cache_get(c.slate, <<>>, t)
        value == Stamp(t, gen)
    IN  IF hit # {}
        THEN [ cache |-> c, value |-> (CHOOSE e \in hit : TRUE).value ]
        ELSE [ cache |-> [ c EXCEPT !.slate = cache_put(@, <<>>, t, value) ], value |-> value ]

load_applications_data_cached(c, t, gen, uploaded_bytes, has_local_file) ==
    LET hit == cache_get(c.apps, uploaded_bytes, t)
        slate == fetch_slate_data(c, t, gen)
        body == IF uploaded_bytes # <<>> \/ has_local_file
                THEN [ cache |-> c, value |-> Stamp(t, gen) ]
                ELSE slate
    IN  IF hit # {}
        THEN [ cache |-> c, value |-> (CHOOSE e \in hit : TRUE).value ]
        ELSE [ cache |-> [ body.cache EXCEPT !.apps = cache_put(@, uploaded_bytes, t, body.value) ],
               value |-> body.value ]

_load_census_from_bytes(c, t, gen, file_bytes) ==
    LET hit == cache_get(c.bytes, file_bytes, t)
        value == Stamp(t, gen)
    IN  IF hit # {}
        THEN [ cache |-> c, value |-> (CHOOSE e \in hit : TRUE).value ]
        ELSE [ cache |-> [ c EXCEPT !.bytes = cache_put(@, file_bytes, t, value) ], value |-> value ]

load_census_data_cached(c, t, gen, uploaded_bytes) ==
    LET hit == cache_get(c.census, uploaded_bytes, t)
        body == IF uploaded_bytes # <<>>
                THEN _load_census_from_bytes(c, t, gen, uploaded_bytes)
                ELSE [ cache |-> c, value |-> Stamp(t, gen) ]
    IN  IF hit # {}
        THEN [ cache |-> c, value |-> (CHOOSE e \in hit : TRUE).value ]
        ELSE [ cache |-> [ body.cache EXCEPT !.census = cache_put(@, uploaded_bytes, t, body.value) ],
               value |-> body.value ]

load_all_data(c, t, gen, census_uploaded_bytes, apps_uploaded_bytes, has_local_file) ==
    LET key == <<census_uploaded_bytes, apps_uploaded_bytes>>
        hit == cache_get(c.all, key, t)
        apps == load_applications_data_cached(c, t, gen, apps_uploaded_bytes, has_local_file)
        census_data == load_census_data_cached(apps.cache, t, gen, census_uploaded_bytes)
        value == [ applications |-> apps.value, census |-> census_data.value, last_refresh |-> t ]
    IN  IF hit # {}
        THEN [ cache |-> c, value |-> (CHOOSE e \in hit : TRUE).value ]
        ELSE [ cache |-> [ census_data.cache EXCEPT !.all = cache_put(@, key, t, value) ],
               value |-> value ]

force_refresh(c) ==
    [ c EXCEPT !.all = {}, !.slate = {}, !.apps = {}, !.census = {} ]

(* ---- scenario: the dashboard's calls on the cached loaders ---- *)

MaxClock == 4
MaxRefresh == 1

InitCache ==
    /\ ClassifyIdle
    /\ EnrollIdle
    /\ FunnelIdle
    /\ CensusIdle
    /\ TransformIdle
    /\ AuthIdle
    /\ pc = "cache"
    /\ now = 0
    /\ generation = 0
    /\ cache = EmptyCaches
    /\ local_file \in BOOLEAN
    /\ served = NoCall

\* the clock advances by an hour
Tick ==
    /\ pc = "cache"
    /\ now < MaxClock
    /\ now' = now + 1
    /\ UNCHANGED <<pc, generation, cache, local_file, served, classify_vars, enroll_vars,
                   funnel_vars, census_vars, transform_vars, auth_vars>>

\* app.main's load_all_data(...) with the session's uploads
CallLoadAllData ==
    /\ pc = "cache"
    /\ \E census_bytes \in { <<>>, <<1>> }, apps_bytes \in { <<>>, <<1>> } :
         LET r == load_all_data(cache, now, generation, census_bytes, apps_bytes, local_file)
         IN  /\ cache' = r.cache
             /\ served' = [ called |-> TRUE, value |-> r.value, called_at |-> now, called_gen |-> generation,
                            census_bytes |-> census_bytes, apps_bytes |-> apps_bytes ]
    /\ UNCHANGED <<pc, now, generation, local_file, classify_vars, enroll_vars,
                   funnel_vars, census_vars, transform_vars, auth_vars>>

\* the sidebar's "Refresh Data" button
ForceRefresh ==
    /\ pc = "cache"
    /\ generation < MaxRefresh
    /\ cache' = force_refresh(cache)
    /\ generation' = generation + 1
    /\ UNCHANGED <<pc, now, local_file, served, classify_vars, enroll_vars,
                   funnel_vars, census_vars, transform_vars, auth_vars>>

NextCache == Tick \/ CallLoadAllData \/ ForceRefresh

SpecCache == InitCache /\ [][NextCache]_vars

-----------------------------------------------------------------------------
(* auth.py and app.main: the password gate in front of the engine.  One
   script run is one step; st.rerun() ends the run and asks for another,
   st.stop() ends it with the login form on screen. *)

check_password(state, password, login_button, configured) ==
    LET session == IF state.has_authenticated THEN state
                   ELSE [ has_authenticated |-> TRUE, authenticated |-> FALSE ]
    IN  IF session.authenticated
        THEN [ session_state |-> session, outcome |-> "return" ]
        ELSE IF (login_button \/ password # <<>>) /\ password = configured
             THEN [ session_state |-> [ session EXCEPT !.authenticated = TRUE ],
                    outcome |-> "rerun" ]
             ELSE [ session_state |-> session, outcome |-> "stop" ]

logout(state) == [ state EXCEPT !.authenticated = FALSE ]

\* app.main with what the widgets return in this run
main(state, password, login_button, logout_button, configured) ==
    LET gate == check_password(state, password, login_button, configured)
        this_run == [ NoRun EXCEPT !.password = password, !.login_button = login_button,
                                  !.authenticated_before = state.authenticated ]
    IN  CASE gate.outcome = "return" ->
               [ session_state |-> IF logout_button THEN logout(gate.session_state)
                                   ELSE gate.session_state,
                 screen |-> "dashboard",
                 rerun |-> logout_button,
                 run |-> [ this_run EXCEPT !.loaded = TRUE,
                                           !.authenticated_at_load = gate.session_state.authenticated,
                                           !.logged_out = logout_button ] ]
          [] gate.outcome = "rerun" ->
               [ session_state |-> gate.session_state,
                 screen |-> "none",
                 rerun |-> TRUE,
                 run |-> [ this_run EXCEPT !.granted = TRUE ] ]
          [] OTHER ->
               [ session_state |-> gate.session_state,
                 screen |-> "login",
                 rerun |-> FALSE,
                 run |-> this_run ]

(* ---- scenario: a browser session of the dashboard ---- *)

MaxRuns == 6

InitAuth ==
    /\ ClassifyIdle
    /\ EnrollIdle
    /\ FunnelIdle
    /\ CensusIdle
    /\ TransformIdle
    /\ CacheIdle
    /\ pc = "app"
    /\ secret \in { <<>>, <<"p", "w">>, <<"s", "3", "c", "r", "e", "t">> }
    /\ session_state = NoSession
    /\ screen = "none"
    /\ rerun_pending = TRUE
    /\ last_run = NoRun
    /\ runs = 0

AppRun(password, login_button, logout_button) ==
    LET after == main(session_state, password, login_button, logout_button, secret)
    IN  /\ pc = "app"
        /\ runs < MaxRuns
        /\ runs' = runs + 1
        /\ session_state' = after.session_state
        /\ screen' = after.screen
        /\ rerun_pending' = after.rerun
        /\ last_run' = after.run
        /\ UNCHANGED <<pc, secret, classify_vars, enroll_vars, funnel_vars, census_vars,
                       transform_vars, cache_vars>>

\* the first run of a session and the run st.rerun() asked for: no widget fired
Rerun ==
    /\ rerun_pending
    /\ AppRun(<<>>, FALSE, FALSE)

\* the user submits the login form: text typed, button pressed, or both
SubmitLogin ==
    /\ ~rerun_pending
    /\ screen = "login"
    /\ \E password \in { <<>>, <<"p", "w">>, <<"s", "3", "c", "r", "e", "t">>, <<"g", "u", "e", "s", "s">> }, login_button \in BOOLEAN :
         AppRun(password, login_button, FALSE)

\* the user clicks something on the dashboard, possibly Logout
ClickDashboard ==
    /\ ~rerun_pending
    /\ screen = "dashboard"
    /\ \E logout_button \in BOOLEAN : AppRun(<<>>, FALSE, logout_button)

NextAuth == Rerun \/ SubmitLogin \/ ClickDashboard

SpecAuth == InitAuth /\ [][NextAuth]_vars


-----------------------------------------------------------------------------
(* Properties of the enrollment-status deriver (SpecEnroll) *)

HasColumn(df, name) == \E c \in df.columns : str_lower(c) = name

ColumnCell(df, i, name) ==
    df.rows[i][CHOOSE c \in df.columns : str_lower(c) = name]

HasDateColumn == HasColumn(enroll_df, <<"d", "a", "t", "e", " ", "o", "f", " ", "e", "n", "r", "o", "l", "l", "m", "e", "n", "t">>)
HasTermColumn == HasColumn(enroll_df, <<"t", "e", "r", "m", " ", "o", "f", " ", "e", "n", "r", "o", "l", "l", "m", "e", "n", "t">>)

DateInValidYear(cell) ==
    /\ ~isna(cell)
    /\ ~to_datetime(cell).isnat
    /\ to_datetime(cell).year \in {2024, 2025, 2026}

LabelHasValidYear(cell) ==
    /\ ~isna(cell)
    /\ \E y \in { <<"2", "0", "2", "4">>, <<"2", "0", "2", "5">>, <<"2", "0", "2", "6">> } : str_contains(y, cell)

MarkedEnrolled(i) ==
    /\ COL.yoy \in DOMAIN enroll_out.rows[i]
    /\ enroll_out.rows[i][COL.yoy] = <<"y", "e", "s">>

MarkedNotEnrolled(i) ==
    /\ COL.yoy \in DOMAIN enroll_out.rows[i]
    /\ enroll_out.rows[i][COL.yoy] = <<"n", "o">>

\* tiers (1) and (2) and the row count, which hold of every table
EnrollTiersByColumn ==
    /\ Len(enroll_out.rows) = Len(enroll_df.rows)
    /\ HasDateColumn =>
          \A i \in 1..Len(enroll_df.rows) :
              MarkedEnrolled(i) <=>
                  DateInValidYear(ColumnCell(enroll_df, i, <<"d", "a", "t", "e", " ", "o", "f", " ", "e", "n", "r", "o", "l", "l", "m", "e", "n", "t">>))
    /\ (~HasDateColumn /\ HasTermColumn) =>
          \A i \in 1..Len(enroll_df.rows) :
              MarkedEnrolled(i) <=>
                  LabelHasValidYear(ColumnCell(enroll_df, i, <<"t", "e", "r", "m", " ", "o", "f", " ", "e", "n", "r", "o", "l", "l", "m", "e", "n", "t">>))

\* C7 as stated: the three-tier fallback is decided per table; with a date column a
\* row is enrolled iff its date parses to a year in 2024..2026 (the term column is
\* ignored); else with a term column a row is enrolled iff its label contains a
\* valid year; else every row is not enrolled and a warning is emitted; the row
\* count is unchanged.
C7_AsStated ==
    pc = "derived" =>
        /\ EnrollTiersByColumn
        /\ (~HasDateColumn /\ ~HasTermColumn) =>
              /\ \A i \in 1..Len(enroll_df.rows) : ~MarkedEnrolled(i)
              /\ enroll_warned

\* C7 (amended): the same three tiers on a table that has rows, each row marked
\* 'yes' or 'no'; a table without rows is returned as it is, with no 'YOY Status'
\* column and no warning, whatever its columns are.
C7_EnrollmentTiers ==
    pc = "derived" =>
        /\ EnrollTiersByColumn
        /\ enroll_df.rows /= <<>> =>
              /\ \A i \in 1..Len(enroll_df.rows) :
                    MarkedEnrolled(i) \/ MarkedNotEnrolled(i)
              /\ (~HasDateColumn /\ ~HasTermColumn) =>
                    /\ \A i \in 1..Len(enroll_df.rows) : MarkedNotEnrolled(i)
                    /\ enroll_warned
              /\ (HasDateColumn \/ HasTermColumn) => ~enroll_warned
        /\ enroll_df.rows = <<>> =>
              /\ enroll_out = enroll_df
              /\ ~enroll_warned

\* a table with both columns and a row whose date is blank and whose term label
\* names 2026: the row is not enrolled
C7_Witness ==
    /\ pc = "derived"
    /\ HasDateColumn /\ HasTermColumn
    /\ \E i \in 1..Len(enroll_df.rows) :
          /\ str_strip(py_str(ColumnCell(enroll_df, i, <<"d", "a", "t", "e", " ", "o", "f", " ", "e", "n", "r", "o", "l", "l", "m", "e", "n", "t">>))) = <<>>
          /\ LabelHasValidYear(ColumnCell(enroll_df, i, <<"t", "e", "r", "m", " ", "o", "f", " ", "e", "n", "r", "o", "l", "l", "m", "e", "n", "t">>))
          /\ MarkedNotEnrolled(i)
    /\ \E i \in 1..Len(enroll_df.rows) : MarkedEnrolled(i)

-----------------------------------------------------------------------------
(* Properties of the analytics engine (SpecFunnel) *)

Years == {2024, 2025, 2026}

TableOf(year) ==
    IF year = 2026 THEN applications.current
    ELSE IF year = 2025 THEN applications.previous
    ELSE applications.two_years_ago

IsTransformed(df) == ~df.isnone /\ DerivedColumns \subseteq df.columns

\* the rows of the year's table whose column col holds value; none if the table is
\* missing or lacks the column
RowsWhere(year, col, value) ==
    LET df == TableOf(year)
    IN  IF df.isnone \/ col \notin df.columns THEN {}
        ELSE { i \in 1..Len(df.rows) : df.rows[i][col] = value }

\* the funnel counts of the rows idx of the year's table, each stage by its own test
CountsOf(year, idx) ==
    [ year |-> year,
      applications    |-> Cardinality(idx \cap RowsWhere(year, COL.is_application, 1)),
      admits          |-> Cardinality(idx \cap RowsWhere(year, COL.admit_status, <<"a", "d", "m", "i", "t", "t", "e", "d">>)),
      offers_accepted |-> Cardinality(idx \cap RowsWhere(year, COL.offer_accepted, <<"y", "e", "s">>)),
      enrollments     |-> Cardinality(idx \cap RowsWhere(year, COL.enrolled, <<"y", "e", "s">>)) ]

Summarized == pc \in {"summarized", "rated"}

\* C8: for every transformed applicant table calculate_funnel_metrics returns, for
\* each stage, the number of rows that pass that stage's own test (Is Application
\* 1, Admit Status 'admitted', Offer Accepted 'yes', Enrolled 'yes'), no stage being
\* filtered by an earlier one and each row counting at most once per stage.
C8_FunnelStageIndependence ==
    Summarized =>
        \A year \in Years :
            IsTransformed(TableOf(year)) =>
                summary.overall[year] = CountsOf(year, 1..Len(TableOf(year).rows))

\* a current-year table of two applications or more with an accepted offer and
\* more enrolled rows than admitted ones
C8_Witness ==
    /\ pc = "summarized"
    /\ IsTransformed(applications.current)
    /\ summary.overall[2026].applications >= 2
    /\ summary.overall[2026].enrollments > summary.overall[2026].admits
    /\ summary.overall[2026].offers_accepted >= 1

BreakdownFields ==
    { <<"by_school", COL.school_expanded>>, <<"by_category", COL.category>>,
      <<"by_degree", COL.degree_type>> }

FieldValues(field) ==
    UNION { { TableOf(year).rows[i][field] : i \in 1..Len(TableOf(year).rows) } :
            year \in { y \in Years : ~TableOf(y).isnone /\ field \in TableOf(y).columns } }

ZeroMetrics(year) ==
    [year |-> year, applications |-> 0, admits |-> 0, offers_accepted |-> 0, enrollments |-> 0]

\* C9: the breakdown by a field has a key for every non-blank value of the field in
\* any of the three yearly tables and no other key, each key holds an entry for
\* each of 2024, 2025 and 2026, namely the funnel counts of that year's rows with
\* that value, which are all zero when the year has none (also when its table is
\* missing, empty or lacks the field); the blank value is never a key.
C9_BreakdownCompleteness ==
    Summarized =>
        \A bf \in BreakdownFields :
            LET breakdown == summary[bf[1]]
                field     == bf[2]
            IN  /\ DOMAIN breakdown = FieldValues(field) \ { <<>> }
                /\ \A value \in DOMAIN breakdown :
                      /\ DOMAIN breakdown[value] = Years
                      /\ \A year \in Years :
                            /\ breakdown[value][year] =
                                   CountsOf(year, RowsWhere(year, field, value))
                            /\ RowsWhere(year, field, value) = {} =>
                                   breakdown[value][year] = ZeroMetrics(year)

\* the 2024 table is missing, the 2025 table holds a blank school, and a school of
\* the 2026 table has its three entries, those of 2024 and 2025 all zero
C9_Witness ==
    /\ pc = "summarized"
    /\ applications.two_years_ago.isnone
    /\ RowsWhere(2025, COL.school_expanded, <<>>) /= {}
    /\ \E value \in DOMAIN summary.by_school :
          /\ summary.by_school[value][2026].applications = 1
          /\ summary.by_school[value][2025] = ZeroMetrics(2025)
          /\ summary.by_school[value][2024] = ZeroMetrics(2024)

IsZero(q) == ~q.err /\ q.num = 0

\* C10: safe_divide(x, 0) is the default 0 for every x, 0 included, so every rate of
\* a FunnelMetrics and every change of a YoYComparison is 0, and raises no error,
\* when its denominator count is 0.
C10_DivisionGuard ==
    /\ \A x \in (0 - MaxFeedRows)..MaxFeedRows : safe_divide(x, 0, 0) = Quotient(0, 1)
    /\ pc = "rated" =>
          /\ \A year \in Years :
                LET m == summary.overall[year]
                    r == rates.overall[year]
                IN  /\ ~r.admit_rate.err /\ ~r.offer_rate.err
                    /\ ~r.yield_rate.err /\ ~r.overall_conversion.err
                    /\ m.applications = 0 =>
                          IsZero(r.admit_rate) /\ IsZero(r.overall_conversion)
                    /\ m.admits = 0 =>
                          IsZero(r.offer_rate) /\ IsZero(r.yield_rate)
          /\ \A cmp \in {"2026_vs_2025", "2025_vs_2024"} :
                LET p == summary.yoy[cmp].previous
                    c == rates.yoy[cmp]
                IN  /\ ~c.apps_change.err /\ ~c.admits_change.err
                    /\ ~c.enrollments_change.err
                    /\ p.applications = 0 => IsZero(c.apps_change)
                    /\ p.admits = 0 => IsZero(c.admits_change)
                    /\ p.enrollments = 0 => IsZero(c.enrollments_change)

\* enrolled rows in a year without admits, and a year with applications after a
\* year without any: the yield rate and the change in applications are 0
C10_Witness ==
    /\ pc = "rated"
    /\ summary.overall[2026].admits = 0
    /\ summary.overall[2026].enrollments > 0
    /\ IsZero(rates.overall[2026].yield_rate)
    /\ summary.overall[2025].applications = 0
    /\ summary.overall[2026].applications > 0
    /\ IsZero(rates.yoy["2026_vs_2025"].apps_change)

-----------------------------------------------------------------------------
(* Properties of the census classifiers (SpecCensus) *)

CensusClassified == pc = "classified_census"

\* a row with location 'Online' that none of the rules before the corporate rule
\* matched: no CPE program or school, degree type not Non-Degree, beacon flag not 1
GenericOnline(row) ==
    /\ row[CEN.location] = <<"O", "n", "l", "i", "n", "e">>
    /\ ~ntr_is_cpe_program(row[CEN.program])
    /\ ~is_cpe_school(row[CEN.school])
    /\ row[CEN.degree_type] /= <<"N", "o", "n", "-", "D", "e", "g", "r", "e", "e">>
    /\ row[CEN.beacon_flag] /= 1

\* the corporate flag is set and the cohort is a real value
CorporateWithCohort(row) ==
    /\ row[CEN.corporate] = <<"C", "o", "r", "p", "o", "r", "a", "t", "e">>
    /\ ~BlankCell(row[CEN.cohort])
    /\ str_lower(str_strip(row[CEN.cohort])) /= <<"n", "o", "t", " ", "r", "e", "p", "o", "r", "t", "e", "d">>

\* C11: classify_student_category puts a generic-online row in Corporate when its
\* corporate flag is set and its cohort is a real value, in Retail in every other
\* case, and never in Uncategorized
C11_GenericOnlineCategory ==
    CensusClassified /\ GenericOnline(census_row) =>
        census_class.ntr = IF CorporateWithCohort(census_row) THEN <<"C", "o", "r", "p", "o", "r", "a", "t", "e">> ELSE <<"R", "e", "t", "a", "i", "l">>

\* C13: classify_student_type returns New or Current for every census row: Current
\* for the status Continuing or Returning and for a New student with the
\* previous-summer flag 1, New for a New student whose flag is 0 or absent
C13_StudentTypeRange ==
    CensusClassified =>
        /\ census_class.student_type \in { <<"N", "e", "w">>, <<"C", "u", "r", "r", "e", "n", "t">> }
        /\ census_class.student_type = <<"C", "u", "r", "r", "e", "n", "t">> <=>
              \/ census_row[CEN.status] \in { <<"C", "o", "n", "t", "i", "n", "u", "i", "n", "g">>, <<"R", "e", "t", "u", "r", "n", "i", "n", "g">> }
              \/ /\ census_row[CEN.status] = <<"N", "e", "w">>
                 /\ row_get(census_row, CEN.prev_summer, 0) = 1

-----------------------------------------------------------------------------
(* Properties of the NTR calculators (SpecCensus) *)

NtrCalculated == pc \in {"ntr", "ntr_repeated"}

UNCATEGORIZED == <<"U", "n", "c", "a", "t", "e", "g", "o", "r", "i", "z", "e", "d">>

\* the row of a census file with its flags made numeric, as the classifiers see it
NumericRow(row) ==
    set_col(set_col(row, CEN.beacon_flag, to_numeric_fillna(row[CEN.beacon_flag])),
            CEN.prev_summer, to_numeric_fillna(row[CEN.prev_summer]))

\* the category of the row is Uncategorized, or its degree type is not in scope
OutOfScope(row) ==
    \/ classify_student_category(NumericRow(row)) = UNCATEGORIZED
    \/ row[CEN.degree_type] \notin { <<"M", "a", "s", "t", "e", "r", "s">>, <<"G", "r", "a", "d", "u", "a", "t", "e", " ", "C", "e", "r", "t", "i", "f", "i", "c", "a", "t", "e">>, <<"N", "o", "n", "-", "D", "e", "g", "r", "e", "e">>,
                                     <<"P", "r", "o", "f", "e", "s", "s", "i", "o", "n", "a", "l", " ", "G", "r", "a", "d", "u", "a", "t", "e", " ", "C", "e", "r", "t", "i", "f", "i", "c", "a", "t", "e">> }

ReactOutOfScope(row) ==
    \/ categorize_census_row(NumericRow(row)) = UNCATEGORIZED
    \/ row[CEN.degree_type] \notin { <<"M", "a", "s", "t", "e", "r", "s">>, <<"G", "r", "a", "d", "u", "a", "t", "e", " ", "C", "e", "r", "t", "i", "f", "i", "c", "a", "t", "e">>, <<"N", "o", "n", "-", "D", "e", "g", "r", "e", "e">> }

\* C12: the rows whose category is Uncategorized or whose degree type is out of
\* scope contribute nothing: every output of calculate_ntr_from_census, and of
\* calculate_ntr_metrics on the table process_data.py loads, is what it is on the
\* census file without those rows
C12_UncategorizedExcluded ==
    /\ NtrCalculated =>
          ntr_out = calculate_ntr_from_census(
                        df_filter(census_file, [i \in 1..Len(census_file.rows) |->
                                                   ~OutOfScope(census_file.rows[i])]),
                        DEFAULT_NTR_GOAL, <<"2", "0", "2", "6", "S">>)
    /\ pc = "react_ntr" /\ ~census_file.isnone =>
          react_out = calculate_ntr_metrics(react_load_census_data(
                        df_filter(census_file, [i \in 1..Len(census_file.rows) |->
                                                   ~ReactOutOfScope(census_file.rows[i])]),
                        <<"2", "0", "2", "6", "S">>))

\* an Uncategorized row with credits beside a row that counts
C12_Witness ==
    /\ pc = "ntr"
    /\ ~ntr_out.isnone
    /\ ntr_out.summary.total_credits > 0
    /\ \E i \in 1..Len(census_file.rows) :
          /\ classify_student_category(NumericRow(census_file.rows[i])) = UNCATEGORIZED
          /\ census_file.rows[i][CEN.semester] = <<"2", "0", "2", "6", "S">>
          /\ to_numeric_fillna(census_file.rows[i][CEN.census3_credits]) > 0

\* the sum of the values of a function over a finite set
RECURSIVE SumOver(_, _)
SumOver(S, f) ==
    IF S = {} THEN 0
    ELSE LET x == CHOOSE x \in S : TRUE IN f[x] + SumOver(S \ {x}, f)

\* the indices of the rows of the census file that are of the semester and in scope
InScopeRows ==
    { i \in 1..Len(census_file.rows) :
        /\ census_file.rows[i][CEN.semester] = <<"2", "0", "2", "6", "S">>
        /\ ~OutOfScope(census_file.rows[i]) }

\* the (category, degree type, student type) of row i
TripleOf(i) ==
    << classify_student_category(NumericRow(census_file.rows[i])),
       census_file.rows[i][CEN.degree_type],
       classify_student_type(NumericRow(census_file.rows[i])) >>

CreditsOf(i) == to_numeric_fillna(census_file.rows[i][CEN.census3_credits])

\* the triples of the in-scope rows, and the credits of each
Groups == { TripleOf(i) : i \in InScopeRows }

GroupCredits ==
    [ g \in Groups |-> SumOver({ i \in InScopeRows : TripleOf(i) = g },
                               [i \in InScopeRows |-> CreditsOf(i)]) ]

\* C14: total_ntr is the sum over the groups of the in-scope rows of the group's
\* credits times its rate, a triple absent from CPC_RATES adding 0; the summary's
\* totals are new plus current, and each is the sum of its field over the
\* breakdown rows
C14_NtrIsCreditsTimesRate ==
    NtrCalculated /\ ~ntr_out.isnone =>
        LET total(field) ==
                SumOver(DOMAIN ntr_out.category_breakdown,
                        [k \in DOMAIN ntr_out.category_breakdown |->
                            ntr_out.category_breakdown[k][field]])
            ntr_summary == ntr_out.summary
        IN  /\ ntr_summary.total_ntr =
                  SumOver(Groups, [g \in Groups |->
                      GroupCredits[g] * get_cpc_rate(g[1], g[2], g[3])])
            /\ ntr_summary.total_ntr =
                  SumOver(Groups \cap DOMAIN CPC_RATES,
                          [g \in Groups \cap DOMAIN CPC_RATES |->
                              GroupCredits[g] * CPC_RATES[g]])
            /\ ntr_summary.total_ntr = ntr_summary.new_ntr + ntr_summary.current_ntr
            /\ ntr_summary.total_credits = ntr_summary.new_credits + ntr_summary.current_credits
            /\ ntr_summary.total_students = ntr_summary.new_students + ntr_summary.current_students
            /\ ntr_summary.total_ntr = total("total_ntr")
            /\ ntr_summary.new_ntr = total("ntr_new")
            /\ ntr_summary.current_ntr = total("ntr_current")
            /\ ntr_summary.total_credits = total("total_credits")
            /\ ntr_summary.new_credits = total("new_credits")
            /\ ntr_summary.current_credits = total("current_credits")
            /\ ntr_summary.total_students = total("total_students")
            /\ ntr_summary.new_students = total("new_students")
            /\ ntr_summary.current_students = total("current_students")

\* two breakdown rows, one of them a group with credits and no rate
C14_Witness ==
    /\ pc = "ntr"
    /\ ~ntr_out.isnone
    /\ Cardinality(DOMAIN ntr_out.category_breakdown) = 2
    /\ ntr_out.summary.total_ntr > 0
    /\ \E g \in Groups : g \notin DOMAIN CPC_RATES /\ GroupCredits[g] > 0
                            /\ g[3] = <<"C", "u", "r", "r", "e", "n", "t">>

\* C15: every (category, degree type, student type) of the in-scope rows that is
\* absent from the rate table is named in a gap list that calculate_ntr_from_census
\* returns beside the NTR total
C15_RateGapsReported ==
    NtrCalculated /\ ~ntr_out.isnone =>
        \A g \in Groups :
            g \notin DOMAIN CPC_RATES =>
                /\ "rate_gaps" \in DOMAIN ntr_out
                /\ g \in ntr_out.rate_gaps

\* the student counts of a result of calculate_ntr_from_census
Headcounts(result) ==
    [ isnone   |-> result.isnone,
      new      |-> IF result.isnone THEN 0 ELSE result.summary.new_students,
      current  |-> IF result.isnone THEN 0 ELSE result.summary.current_students,
      total    |-> IF result.isnone THEN 0 ELSE result.summary.total_students,
      by_group |-> [ k \in DOMAIN result.category_breakdown |->
                       << result.category_breakdown[k].new_students,
                          result.category_breakdown[k].current_students,
                          result.category_breakdown[k].total_students >> ] ]

\* C16: repeating a row of the census file changes no headcount: the student counts
\* of calculate_ntr_from_census, by group and in total, and the total of
\* load_census_data are what they were before
C16_CensusDeduplication ==
    /\ pc = "ntr_repeated" => Headcounts(ntr_out) = Headcounts(census_prev)
    /\ pc = "census_repeated" =>
          /\ census_out.isnone = census_prev.isnone
          /\ census_out.total = census_prev.total

\* the repeated row is one that counts: the credits grew, the students did not
C16_Witness ==
    /\ pc = "ntr_repeated"
    /\ ~ntr_out.isnone
    /\ ~census_prev.isnone
    /\ ntr_out.summary.total_credits > census_prev.summary.total_credits
    /\ ntr_out.summary.total_students = 2

-----------------------------------------------------------------------------
(* Properties of the enrollment reconciliation (SpecFunnel) *)

\* C17: the breakdown's slate_new is the current year's funnel enrollments and its
\* total is slate_new + continuing + returning, the continuing and returning counts
\* being the census's; the census New count is not in it (120 enrolled with a census
\* of 150 new, 40 continuing and 10 returning total 170)
C17_ReconciliationNonOverlap ==
    pc = "rated" =>
        LET breakdown == summary.enrollment_breakdown
        IN  /\ breakdown.slate_new = summary.overall[2026].enrollments
            /\ rates.enrollment_total
                    = breakdown.slate_new + breakdown.continuing + breakdown.returning
            /\ rates.enrollment_total
                    = summary.overall[2026].enrollments
                        + (IF census_out.isnone THEN 0
                           ELSE census_out.continuing + census_out.returning)
            /\ EnrollmentBreakdown_total(EnrollmentBreakdown(120, 150, 40, 10)) = 170

\* a census with five new students beside an enrollment of the funnel
C17_Witness ==
    /\ pc = "rated"
    /\ ~census_out.isnone
    /\ census_out.new = 5
    /\ summary.enrollment_breakdown.census_new = 5
    /\ summary.overall[2026].enrollments >= 1

\* the student IDs of the rows of the census file that load_census_data keeps and
\* that have the given status
StudentsOfStatus(status) ==
    { census_file.rows[i][CEN.student_id] :
        i \in { k \in 1..Len(census_file.rows) :
                  /\ census_file.rows[k][CEN.semester] = <<"2", "0", "2", "6", "S">>
                  /\ census_file.rows[k][CEN.location] \in { <<"O", "n", "l", "i", "n", "e">>, <<"O", "n", "l", "i", "n", "e", " ", "N", "o", "o", "d", "l", "e">> }
                  /\ census_file.rows[k][CEN.degree_type]
                         \in { <<"M", "a", "s", "t", "e", "r", "s">>, <<"G", "r", "a", "d", "u", "a", "t", "e", " ", "C", "e", "r", "t", "i", "f", "i", "c", "a", "t", "e">>, <<"N", "o", "n", "-", "D", "e", "g", "r", "e", "e">> }
                  /\ census_file.rows[k][CEN.status] = status } }

\* C18: the continuing and returning counts of load_census_data are the numbers of
\* unique student IDs among the rows of that status
C18_UniqueStatusCounts ==
    pc \in {"census_loaded", "census_repeated"} /\ ~census_out.isnone =>
        /\ census_out.continuing = Cardinality(StudentsOfStatus(<<"C", "o", "n", "t", "i", "n", "u", "i", "n", "g">>))
        /\ census_out.returning = Cardinality(StudentsOfStatus(<<"R", "e", "t", "u", "r", "n", "i", "n", "g">>))

-----------------------------------------------------------------------------
(* Properties of the transformer (SpecTransform) *)

Transformed == pc \in {"tf_once", "tf_measured", "tf_twice"}

\* the decision, trimmed, lower-cased and with one leading dash stripped, is not blank
NonBlankDecision(cell) ==
    LET trimmed == str_lower(str_strip(CellText(cell)))
        undashed == IF trimmed /= <<>> /\ trimmed[1] = "-" THEN Tail(trimmed) ELSE trimmed
    IN  str_strip(undashed) /= <<>>

\* the rows of the raw table that have a decision
RowsWithDecision ==
    SelectSeq(tf_raw.rows,
              LAMBDA row : COL.decision \in DOMAIN row /\ NonBlankDecision(row[COL.decision]))

\* C19: of an ASAP table the transformer keeps exactly the rows whose decision is not
\* blank after normalization, in their order and each with Is Application = 1; the
\* rows without a decision are in no stage of the funnel measured on the result (of
\* 5 rows of which 2 have no decision, 3 are counted)
C19_AsapFiltering ==
    Transformed /\ str_upper(tf_source) = <<"A", "S", "A", "P">> /\ ~df_none_or_empty(tf_raw) =>
        /\ Len(tf_out1.rows) = Len(RowsWithDecision)
        /\ \A j \in 1..Len(tf_out1.rows) :
              /\ tf_out1.rows[j][COL.is_application] = 1
              /\ tf_out1.rows[j][COL.decision] = CellText(RowsWithDecision[j][COL.decision])
              /\ tf_out1.rows[j][COL.yoy] = CellText(RowsWithDecision[j][COL.yoy])
        /\ Len(tf_raw.rows) = 5 /\ Len(tf_raw.rows) - Len(RowsWithDecision) = 2
              => Len(tf_out1.rows) = 3
        /\ pc = "tf_measured" =>
              /\ tf_metrics.applications = Len(RowsWithDecision)
              /\ tf_metrics.admits <= Len(RowsWithDecision)
              /\ tf_metrics.offers_accepted <= Len(RowsWithDecision)
              /\ tf_metrics.enrollments =
                    Cardinality({ j \in 1..Len(RowsWithDecision) :
                        str_lower(str_strip(CellText(RowsWithDecision[j][COL.yoy]))) = <<"y", "e", "s">> })

\* five rows, two of them without a decision and one of those enrolled
C19_Witness ==
    /\ pc = "tf_measured"
    /\ tf_source = <<"A", "S", "A", "P">>
    /\ Len(tf_raw.rows) = 5
    /\ Len(RowsWithDecision) = 3
    /\ \E i \in 1..5 : tf_raw.rows[i][COL.decision] = NaN /\ tf_raw.rows[i][COL.yoy] = <<"y", "e", "s">>
    /\ \E i \in 1..5 : tf_raw.rows[i][COL.decision] = <<" ", "-", " ">>
    /\ tf_metrics.applications = 3

-----------------------------------------------------------------------------
(* Properties of the cached loaders (SpecCache) *)

Served == served.called

\* C21: after force_refresh, nothing a cached loader computed before the refresh is
\* served: the applications and the census of every result load_all_data returns
\* were computed since the last force refresh before the call
C21_ForceRefreshBypassesCache ==
    Served =>
        /\ served.value.applications.gen = served.called_gen
        /\ served.value.census.gen = served.called_gen

\* C28: what load_all_data returns is at most ttl old: its applications and its census
\* were read from their sources at most 3 hours before the call, and the last_refresh
\* returned with them is not later than the time they were read
C28_TtlBoundsAge ==
    Served =>
        /\ served.called_at - served.value.applications.at <= ttl
        /\ served.called_at - served.value.census.at <= ttl
        /\ served.value.last_refresh <= served.value.applications.at
        /\ served.value.last_refresh <= served.value.census.at

-----------------------------------------------------------------------------
(* Properties of the password gate (SpecAuth) *)

\* C30: load_all_data is invoked only in a run in which session_state.authenticated is
\* true; authenticated becomes true only in a run whose submitted password equals the
\* configured secret and is not empty; and a run that called logout() leaves it false
C30_AuthenticationGates ==
    /\ last_run.loaded => last_run.authenticated_at_load
    /\ (session_state.authenticated /\ ~last_run.authenticated_before) => last_run.granted
    /\ last_run.granted => (last_run.password = secret /\ last_run.password # <<>>)
    /\ last_run.logged_out => ~session_state.authenticated

-----------------------------------------------------------------------------
(* Properties of the engine on missing and empty input (SpecFunnel, SpecCensus) *)

NoData(df) == df_none_or_empty(df)

\* C22: on no data the engine returns zeros: a year whose table is missing or empty
\* has all four counts 0, with all three tables and the census missing the
\* EnrollmentBreakdown's total is 0, and calculate_ntr_from_census of a missing or
\* empty census table returns an NTR summary whose figures are all 0
C22_EmptyInputZeroMetrics ==
    /\ Summarized =>
          /\ \A year \in Years : NoData(TableOf(year)) => summary.overall[year] = ZeroMetrics(year)
          /\ ((\A year \in Years : NoData(TableOf(year))) /\ census_out.isnone) =>
                EnrollmentBreakdown_total(summary.enrollment_breakdown) = 0
    /\ (NtrCalculated /\ NoData(census_file)) =>
          /\ ~ntr_out.isnone
          /\ ntr_out.summary.total_ntr = 0
          /\ ntr_out.summary.total_students = 0
          /\ ntr_out.summary.total_credits = 0

\* C24: process_data.py's reclassify_app_tags gives every application row the
\* category data_loader.py's reclassify_app_tags gives it
C24_ReactSameCategory ==
    pc = "classified" => react_category = app_category

-----------------------------------------------------------------------------
(* Properties of the engine on non-text cells (SpecClassify) *)

\* C23: on a row with numbers in its fields, with gaps of numeric columns or without
\* the optional columns, the classifier returns a category, as a row and as the one
\* row of a table given to transform_application_data, whose standardized fields are
\* text
C23_BestEffortDegradation ==
    pc = "numeric_done" =>
        /\ app_category \in Categories
        /\ \A i \in 1..Len(app_out.rows) :
             /\ app_out.rows[i][COL.category] \in Categories
             /\ \A c \in { COL.degree_type, COL.sponsoring_company, COL.school_expanded,
                           COL.program_cleaned } :
                   ~is_number(app_out.rows[i][c]) /\ ~isna(app_out.rows[i][c])

-----------------------------------------------------------------------------
(* Properties of the funnel's ordering (SpecTransform, SpecFunnel) *)

\* a row with an accepted or a declined offer is an admitted application
OfferImpliesAdmit(df) ==
    \A i \in 1..Len(df.rows) :
        (df.rows[i][COL.offer_accepted] = <<"y", "e", "s">> \/ df.rows[i][COL.offer_declined] = <<"y", "e", "s">>)
            => /\ df.rows[i][COL.admit_status] = <<"a", "d", "m", "i", "t", "t", "e", "d">>
               /\ df.rows[i][COL.is_application] = 1

PartiallyOrdered(m) ==
    /\ m.offers_accepted <= m.admits
    /\ m.admits <= m.applications
    /\ m.enrollments <= m.applications

\* C25: in every table transform_application_data returns, and in the yearly tables
\* made of them, a row with Offer Accepted or Offer Declined 'yes' has Admit Status
\* 'admitted' and Is Application 1, and the funnel counts of such a table satisfy
\* offers_accepted <= admits <= applications and enrollments <= applications
C25_PartialFunnelOrdering ==
    /\ Transformed => OfferImpliesAdmit(tf_out1)
    /\ pc = "tf_twice" => OfferImpliesAdmit(tf_out2)
    /\ pc = "tf_measured" => PartiallyOrdered(tf_metrics)
    /\ Summarized =>
          \A year \in Years :
              /\ IsTransformed(TableOf(year)) => OfferImpliesAdmit(TableOf(year))
              /\ PartiallyOrdered(summary.overall[year])

\* a table with an accepted offer whose enrolled rows outnumber its admitted ones
C25_Witness ==
    /\ pc = "tf_measured"
    /\ tf_metrics.offers_accepted = 1
    /\ tf_metrics.admits = 1
    /\ tf_metrics.enrollments = 2
    /\ tf_metrics.applications = 2

\* an ASAP table whose one row is approved and accepted
C25_WitnessAsap ==
    /\ pc = "tf_measured"
    /\ tf_source = <<"A", "S", "A", "P">>
    /\ Len(tf_out1.rows) = 1
    /\ tf_out1.rows[1][COL.offer_accepted] = <<"y", "e", "s">>

-----------------------------------------------------------------------------
(* The breakdown by category against the overall counts (SpecFunnel) *)

\* the four counts of a FunnelMetrics
CountFields == {"applications", "admits", "offers_accepted", "enrollments"}

\* the sum of one count of one year over the keys of a breakdown
BreakdownSum(breakdown, year, field) ==
    SumOver(DOMAIN breakdown, [value \in DOMAIN breakdown |-> breakdown[value][year][field]])

\* C26: for each year whose table is missing, empty or a table
\* transform_application_data returned, the applications, the admits, the accepted
\* offers and the enrollments of the by_category breakdown of calculate_summary_stats,
\* summed over all its keys, equal the year's overall count: no row is counted under
\* two categories and no row is left out of every category
C26_CategoryPartition ==
    Summarized =>
        \A year \in Years :
            (NoData(TableOf(year)) \/ IsTransformed(TableOf(year))) =>
                \A field \in CountFields :
                    BreakdownSum(summary.by_category, year, field)
                        = summary.overall[year][field]

\* the 2026 table holds two applications, one of each of two categories
C26_Witness ==
    /\ pc = "summarized"
    /\ summary.overall[2026].applications = 2
    /\ \E k1, k2 \in DOMAIN summary.by_category :
          /\ k1 /= k2
          /\ summary.by_category[k1][2026].applications = 1
          /\ summary.by_category[k2][2026].applications = 1

-----------------------------------------------------------------------------
(* The reporting year of a row of the feed (SpecFunnel) *)

\* the feed has been split into the yearly tables
FeedLoaded == pc /= "feed" /\ ~raw_df.isnone /\ COL.round \in raw_df.columns

\* the rows of a yearly table that came from the given source
RowsOfSource(df, source) ==
    IF IsTransformed(df)
    THEN { i \in 1..Len(df.rows) : df.rows[i][COL.data_source] = source }
    ELSE {}

\* C27: load_applications_data places every row whose Round is not 'ASAP' in at most
\* one of the three yearly tables, so these tables hold together no more such rows
\* than the feed, and the rows whose Round is 'ASAP' are in the 2026 table only
C27_OneYearPerRow ==
    FeedLoaded =>
        /\ Cardinality(RowsOfSource(applications.two_years_ago, <<"M", "A", "I", "N">>))
             + Cardinality(RowsOfSource(applications.previous, <<"M", "A", "I", "N">>))
             + Cardinality(RowsOfSource(applications.current, <<"M", "A", "I", "N">>))
               <= Cardinality({ i \in 1..Len(raw_df.rows) :
                                  raw_df.rows[i][COL.round] /= <<"A", "S", "A", "P">> })
        /\ RowsOfSource(applications.two_years_ago, <<"A", "S", "A", "P">>) = {}
        /\ RowsOfSource(applications.previous, <<"A", "S", "A", "P">>) = {}

\* no Round of the feed names two of the years
OneYearRounds ==
    \A i \in 1..Len(raw_df.rows) :
        Cardinality({ year \in { <<"2", "0", "2", "4">>, <<"2", "0", "2", "5">>, <<"2", "0", "2", "6">> } :
                        contains_nocase(year, raw_df.rows[i][COL.round]) }) <= 1

\* the same for the feeds whose Rounds name one year each
C27_OneYearRounds == (FeedLoaded /\ OneYearRounds) => C27_OneYearPerRow

\* an approved ASAP row is in the 2026 table beside a row of the 2026 round
C27_AsapIn2026 ==
    /\ FeedLoaded
    /\ RowsOfSource(applications.current, <<"A", "S", "A", "P">>) /= {}
    /\ RowsOfSource(applications.current, <<"M", "A", "I", "N">>) /= {}

-----------------------------------------------------------------------------
(* The two census categorizers of the dashboard (SpecCensus) *)

\* the row passes the scope filter of load_census_data
LoaderInScope(row) ==
    /\ row[CEN.location] \in { <<"O", "n", "l", "i", "n", "e">>, <<"O", "n", "l", "i", "n", "e", " ", "N", "o", "o", "d", "l", "e">> }
    /\ row[CEN.degree_type] \in { <<"M", "a", "s", "t", "e", "r", "s">>, <<"G", "r", "a", "d", "u", "a", "t", "e", " ", "C", "e", "r", "t", "i", "f", "i", "c", "a", "t", "e">>, <<"N", "o", "n", "-", "D", "e", "g", "r", "e", "e">> }

\* C29: for every census row that passes the scope filter of load_census_data,
\* data_loader._categorize_census_row and ntr_calculator.classify_student_category
\* return the same category
C29_CategorizersAgree ==
    (CensusClassified /\ LoaderInScope(census_row)) =>
        census_class.loader = census_class.ntr

\* the row is of no CPE program or school, its corporate flag is 'Corporate' or
\* 'Non-Corporate' and its beacon flag 0 or 1
PlainCensusRow(row) ==
    /\ ~ntr_is_cpe_program(row[CEN.program])
    /\ ~is_cpe_school(row[CEN.school])
    /\ row[CEN.corporate] \in { <<"C", "o", "r", "p", "o", "r", "a", "t", "e">>, <<"N", "o", "n", "-", "C", "o", "r", "p", "o", "r", "a", "t", "e">> }
    /\ row[CEN.beacon_flag] \in {0, 1}

\* the same for the rows on which the rules of the two categorizers coincide
C29_AgreeOnPlainRows ==
    (CensusClassified /\ LoaderInScope(census_row) /\ PlainCensusRow(census_row)) =>
        census_class.loader = census_class.ntr

\* an online Masters row of the MEADS program: 'Retail' for the loader
C29_CpeRow ==
    /\ CensusClassified
    /\ LoaderInScope(census_row)
    /\ census_class.ntr = <<"C", "P", "E">>
    /\ census_class.loader = <<"R", "e", "t", "a", "i", "l">>

=============================================================================
